---- MODULE Spec2Model ----
(***************************************************************************)
(* xc-ns-mover: the mover subcommand (mover/cli.py main) as a state        *)
(* machine over a small remote tenant.  One step per remote request or     *)
(* per local phase of main(); rollback_batch is one step whose requests    *)
(* are appended to the request log in the order the code issues them.      *)
(***************************************************************************)
EXTENDS Integers, Sequences, FiniteSets, TLC

\* ------------------------------------------------------------------
\* Bounds of the model
\* ------------------------------------------------------------------
\* Remote requests that fail (RequestException) in one run.
MaxFailures == 1
\* Rows of the input CSV.
MaxRows == 2
\* Requests of rollback_batch that fail in one run.
MaxRollbackFailures == 1

\* ------------------------------------------------------------------
\* Names
\* ------------------------------------------------------------------
LBK == "http_loadbalancers"
OPK == "origin_pools"
CERTK == "certificates"

SKIP_NAMESPACES == {"system", "shared"}

TENANT == "acme"
NS1 == "ns1"
NS2 == "ns2"
SHARED == "shared"
NS3 == "ns3"

\* dependency keys (resource_type, name)
OP == <<OPK, "op">>
CRT == <<CERTK, "c1">>
\* an origin pool that bears the name of the certificate
PC == <<OPK, "c1">>
\* a certificate that bears the name the prefix gives to the origin pool
CX == <<CERTK, "x-op">>
DepKeysAll == {OP, CRT, PC, CX}
LBNames == {"lb-a", "lb-b"}

\* no object / no name
NoObj == <<"", "", "">>
NoName == ""

\* ------------------------------------------------------------------
\* Sequence helpers
\* ------------------------------------------------------------------
Range(s) == {s[i] : i \in 1..Len(s)}

Reverse(s) == [i \in 1..Len(s) |-> s[Len(s) + 1 - i]]

RECURSIVE Filter(_, _)
Filter(s, keep) ==
    IF s = <<>> THEN <<>>
    ELSE IF Head(s) \in keep THEN <<Head(s)>> \o Filter(Tail(s), keep)
    ELSE Filter(Tail(s), keep)

RECURSIVE Concat(_)
Concat(ss) == IF ss = <<>> THEN <<>> ELSE Head(ss) \o Concat(Tail(ss))

\* first-seen de-duplication, order kept
RECURSIVE Dedup(_, _)
Dedup(s, seen) ==
    IF s = <<>> THEN <<>>
    ELSE IF Head(s) \in seen THEN Dedup(Tail(s), seen)
    ELSE <<Head(s)>> \o Dedup(Tail(s), seen \cup {Head(s)})

SeqsUpTo(S, n) == UNION {[1..k -> S] : k \in 1..n}

\* ------------------------------------------------------------------
\* spec_utils.py: reference records and the path heuristic
\* ------------------------------------------------------------------
\* JSON paths under which the modelled specs hold their references
POOL_PATH == ".default_route_pools[0].pool"
CERT_PATH == ".https.tls_cert_params.certificates[0]"
OTHER_PATH == ".more_option.custom_errors[0]"

PATH_KEYWORD_TO_RESOURCE ==
    (POOL_PATH :> OPK) @@ (CERT_PATH :> CERTK) @@ (OTHER_PATH :> "None")

guess_resource_type(json_path) == PATH_KEYWORD_TO_RESOURCE[json_path]

PathOf(kind) == IF kind = OPK THEN POOL_PATH
                ELSE IF kind = CERTK THEN CERT_PATH ELSE OTHER_PATH

\* find_ns_refs over a spec given as its sequence of reference records
\* [path, name, namespace]: keeps the records of src_namespace, never
\* those of a reserved namespace.  Result: <<path, name, namespace>>.
find_ns_refs(spec, src_namespace) ==
    LET keep == {r \in Range(spec) :
                    r.namespace = src_namespace
                    /\ r.namespace \notin SKIP_NAMESPACES}
        kept == Filter(spec, keep)
    IN [i \in 1..Len(kept) |-> <<kept[i].path, kept[i].name, kept[i].namespace>>]

\* rewrite_namespace_refs: every record of src_namespace now points to
\* dst_namespace
rewrite_namespace_refs(spec, src_namespace, dst_namespace) ==
    [i \in 1..Len(spec) |->
        IF spec[i].namespace = src_namespace
          THEN [spec[i] EXCEPT !.namespace = dst_namespace]
          ELSE spec[i]]

\* rewrite_name_refs: every record (old_name, namespace) takes new_name,
\* whatever the kind of object it points to
rewrite_name_refs(spec, old_name, new_name, namespace) ==
    [i \in 1..Len(spec) |->
        IF spec[i].name = old_name /\ spec[i].namespace = namespace
          THEN [spec[i] EXCEPT !.name = new_name]
          ELSE spec[i]]

\* rewrite_cert_ref: every record named old_name takes new_name and
\* new_namespace, whatever its namespace and the kind it points to
rewrite_cert_ref(spec, old_name, new_name, new_namespace) ==
    [i \in 1..Len(spec) |->
        IF spec[i].name = old_name
          THEN [spec[i] EXCEPT !.name = new_name, !.namespace = new_namespace]
          ELSE spec[i]]

\* ------------------------------------------------------------------
\* The remote tenant
\* ------------------------------------------------------------------
\* An object is <<namespace, resource_type, name>>.  A world gives the
\* objects that exist when the run starts, the references each object
\* holds (dependency keys, pointing into the object's own namespace), the
\* certificates whose private key cannot be read back, and the domains
\* of LBs and certificates (a domain is its sequence of characters).
A == <<NS1, LBK, "lb-a">>
B == <<NS1, LBK, "lb-b">>
BS == <<SHARED, LBK, "lb-b">>
B2 == <<NS2, LBK, "lb-b">>
P == <<NS1, OPK, "op">>
P2 == <<NS2, OPK, "op">>
K == <<NS1, CERTK, "c1">>
KS == <<SHARED, CERTK, "c1s">>
PK == <<NS1, OPK, "c1">>
PK2 == <<NS2, OPK, "c1">>
KX == <<NS1, CERTK, "x-op">>
KX2 == <<NS2, CERTK, "x-op">>

\* domains, as their sequence of characters: a.b and *.b
APP == <<"a", ".", "b">>
WILD == <<"*", ".", "b">>

NoRefs == [o \in {A, B, BS, B2} |-> <<>>]
NoDomains == [o \in {A, B, BS, B2, K, KS} |-> {}]

\* lb-a and lb-b share the origin pool
WPool ==
    [objs |-> {A, B, P},
     refs |-> [NoRefs EXCEPT ![A] = <<OP>>, ![B] = <<OP>>],
     np |-> {},
     domains |-> NoDomains]

\* lb-a and lb-b share a non-portable certificate; a wildcard
\* certificate covering lb-a's domain exists in shared
WCertMatched ==
    [objs |-> {A, B, P, K, KS},
     refs |-> [NoRefs EXCEPT ![A] = <<CRT, OP>>, ![B] = <<CRT>>],
     np |-> {K},
     domains |-> [NoDomains EXCEPT ![A] = {APP}, ![K] = {APP}, ![KS] = {WILD}]]

\* lb-a holds a non-portable certificate nobody can replace and shares
\* the origin pool with lb-b
WCertUnmatched ==
    [objs |-> {A, B, P, K},
     refs |-> [NoRefs EXCEPT ![A] = <<CRT, OP>>, ![B] = <<OP>>],
     np |-> {K},
     domains |-> [NoDomains EXCEPT ![A] = {APP}, ![K] = {APP}]]

\* independent LBs; LBs named lb-b live in shared and in ns2 and an origin
\* pool named op lives in ns2
WIndep ==
    [objs |-> {A, B, P, BS, P2, B2},
     refs |-> [NoRefs EXCEPT ![A] = <<OP>>],
     np |-> {},
     domains |-> NoDomains]

\* lb-a holds a non-portable certificate c1, replaceable by the wildcard
\* certificate of shared, and an origin pool that is also named c1; an
\* origin pool named c1 lives in ns2
WCertClash ==
    [objs |-> {A, PK, K, KS, PK2},
     refs |-> [NoRefs EXCEPT ![A] = <<CRT, PC>>],
     np |-> {K},
     domains |-> [NoDomains EXCEPT ![A] = {APP}, ![K] = {APP}, ![KS] = {WILD}]]

\* lb-a holds the origin pool op and a portable certificate x-op; an
\* origin pool op and a certificate x-op live in ns2
WChain ==
    [objs |-> {A, P, KX, P2, KX2},
     refs |-> [NoRefs EXCEPT ![A] = <<OP, CX>>],
     np |-> {},
     domains |-> NoDomains]

\* lb-a holds the origin pool op, and op holds the portable
\* certificate x-op
WNested ==
    [objs |-> {A, P, KX},
     refs |-> (P :> <<CX>>) @@ [NoRefs EXCEPT ![A] = <<OP>>],
     np |-> {},
     domains |-> NoDomains]

\* lb-a and lb-b share the origin pool; an LB named lb-b lives in ns2
WPoolClash ==
    [objs |-> {A, B, P, B2},
     refs |-> [NoRefs EXCEPT ![A] = <<OP>>, ![B] = <<OP>>],
     np |-> {},
     domains |-> NoDomains]

\* lb-a of ns1 and lb-b of ns2 each hold an origin pool named op in
\* their own namespace
WTwoNs ==
    [objs |-> {A, P, B2, P2},
     refs |-> [NoRefs EXCEPT ![A] = <<OP>>, ![B2] = <<OP>>],
     np |-> {},
     domains |-> NoDomains]

Worlds ==
    {WPool, WCertMatched, WCertUnmatched, WIndep, WCertClash, WChain, WNested, WPoolClash,
     WTwoNs}

LbRefs(w, obj) == IF obj \in DOMAIN w.refs THEN w.refs[obj] ELSE <<>>

\* spec of an LB as its sequence of reference records
LbSpec(w, obj) ==
    [i \in 1..Len(LbRefs(w, obj)) |->
        [path |-> PathOf(LbRefs(w, obj)[i][1]),
         name |-> LbRefs(w, obj)[i][2],
         namespace |-> obj[1]]]

\* spec of a dependency, likewise
DepSpec(w, obj) == LbSpec(w, obj)

ObjSpec(w, obj) == IF obj[2] = LBK THEN LbSpec(w, obj) ELSE DepSpec(w, obj)

\* client.py: prepare_for_move, the spec part of its result
prepare_for_move(w, obj, src_namespace, target_namespace) ==
    rewrite_namespace_refs(ObjSpec(w, obj), src_namespace, target_namespace)

\* the referrers a probing delete meets: the objects present in the
\* object's namespace, LBs and dependencies, that reference it
Referrers(w, rem, obj) ==
    {o \in rem : o[1] = obj[1] /\ <<obj[2], obj[3]>> \in Range(LbRefs(w, o))}

\* extract_referring_objects of a GET: the field holds the referrers
\* when the API lists them (listed) and is empty when it does not
extract_referring_objects(listed, w, rem, obj) ==
    IF listed THEN Referrers(w, rem, obj) ELSE {}

\* ------------------------------------------------------------------
\* client.py: discover_dependencies (BFS over the reference graph)
\* ------------------------------------------------------------------
\* rem is the set of objects a GET finds; a failed fetch still records
\* the entry, without its sub-references.
RECURSIVE Bfs(_, _, _, _, _, _)
Bfs(w, rem, src_namespace, queue, seen, ordered) ==
    IF queue = <<>> THEN ordered
    ELSE
      LET path == Head(queue)[1]
          obj_name == Head(queue)[2]
          obj_ns == Head(queue)[3]
          resource_type == guess_resource_type(path)
          key == <<resource_type, obj_name>>
          obj == <<obj_ns, resource_type, obj_name>>
      IN IF resource_type = "None" \/ key \in seen
           THEN Bfs(w, rem, src_namespace, Tail(queue), seen, ordered)
         ELSE IF obj \notin rem
           THEN Bfs(w, rem, src_namespace, Tail(queue), seen \cup {key},
                    Append(ordered, <<resource_type, obj_name, obj_ns>>))
         ELSE Bfs(w, rem, src_namespace,
                  Tail(queue) \o find_ns_refs(ObjSpec(w, obj), src_namespace),
                  seen \cup {key},
                  Append(ordered, <<resource_type, obj_name, obj_ns>>))

discover_dependencies(w, rem, src_namespace, lb_name) ==
    Bfs(w, rem, src_namespace,
        find_ns_refs(LbSpec(w, <<src_namespace, LBK, lb_name>>), src_namespace), {}, <<>>)

DepKey(d) == <<d[1], d[2]>>
DepKeys(deps) == [i \in 1..Len(deps) |-> DepKey(deps[i])]

\* ------------------------------------------------------------------
\* orchestrator.py: UnionFind and cluster_batches
\* ------------------------------------------------------------------
RECURSIVE UfFind(_, _)
UfFind(parent, x) == IF parent[x] = x THEN x ELSE UfFind(parent, parent[x])

\* a union that joins nothing
UfNoUnion(parent, a, b) == [x \in DOMAIN parent |-> parent[x]]

UfUnion(parent, a, b) ==
    LET ra == UfFind(parent, a)
        rb == UfFind(parent, b)
    IN IF ra # rb THEN [parent EXCEPT ![ra] = rb] ELSE parent

\* dep_to_lbs of cluster_batches: the LBs (in dict order) that list key
DepToLbs(order, deps, key) ==
    Filter(order, {n \in Range(order) : key \in Range(DepKeys(deps[n]))})

RECURSIVE UnionAll(_, _, _)
UnionAll(parent, lb_names, i) ==
    IF i > Len(lb_names) THEN parent
    ELSE UnionAll(UfUnion(parent, lb_names[1], lb_names[i]), lb_names, i + 1)

RECURSIVE UnionDeps(_, _, _, _)
UnionDeps(parent, order, deps, keys) ==
    IF keys = <<>> THEN parent
    ELSE UnionDeps(UnionAll(parent, DepToLbs(order, deps, Head(keys)), 2),
                   order, deps, Tail(keys))

\* order: the keys of lb_deps in insertion order; deps: lb_name -> list
cluster_batches(order, deps) ==
    LET parent0 == [n \in Range(order) |-> n]
        keys == Dedup(Concat([i \in 1..Len(order) |-> DepKeys(deps[order[i]])]), {})
        parent == UnionDeps(parent0, order, deps, keys)
        roots == Dedup([i \in 1..Len(order) |-> UfFind(parent, order[i])], {})
    IN [i \in 1..Len(roots) |->
          Filter(order, {n \in Range(order) : UfFind(parent, n) = roots[i]})]

\* ------------------------------------------------------------------
\* orchestrator.py: discover_lbs_and_deps
\* ------------------------------------------------------------------
Put(f, k, v) == [x \in DOMAIN f |-> IF x = k THEN v ELSE f[x]]

\* failing: the positions of to_move whose GET is refused although the
\* LB exists.  lb_configs maps a name to the object whose config was
\* captured; lb_order is the insertion order of the lb_deps dict.
RECURSIVE DiscoverFrom(_, _, _, _, _, _)
DiscoverFrom(w, rem, to_move, failing, i, acc) ==
    IF i > Len(to_move) THEN acc
    ELSE
      LET src_ns == to_move[i][1]
          lb_name == to_move[i][2]
          obj == <<src_ns, LBK, lb_name>>
      IN IF obj \notin rem \/ i \in failing
           THEN DiscoverFrom(w, rem, to_move, failing, i + 1,
                    [acc EXCEPT !.discovery_failed = @ \cup {lb_name}])
           ELSE DiscoverFrom(w, rem, to_move, failing, i + 1,
                    [acc EXCEPT
                       !.lb_configs = Put(@, lb_name, obj),
                       !.lb_deps = Put(@, lb_name, discover_dependencies(w, rem, src_ns, lb_name)),
                       !.lb_order = IF lb_name \in Range(@) THEN @ ELSE Append(@, lb_name)])

discover_lbs_and_deps(w, rem, to_move, failing) ==
    DiscoverFrom(w, rem, to_move, failing, 1,
        [lb_configs |-> [n \in LBNames |-> NoObj],
         lb_deps |-> [n \in LBNames |-> <<>>],
         lb_order |-> <<>>,
         discovery_failed |-> {}])

\* lb_src_ns = {name: ns for ns, name in to_move}: the last row wins
RECURSIVE SrcNsFrom(_, _, _)
SrcNsFrom(to_move, i, acc) ==
    IF i > Len(to_move) THEN acc
    ELSE SrcNsFrom(to_move, i + 1, Put(acc, to_move[i][2], to_move[i][1]))

LbSrcNs(to_move) == SrcNsFrom(to_move, 1, [n \in LBNames |-> "?"])

\* ------------------------------------------------------------------
\* orchestrator.py: scan_external_references
\* ------------------------------------------------------------------
AllDepKeys(lb_order, lb_deps) ==
    UNION {Range(DepKeys(lb_deps[n])) : n \in Range(lb_order)}

\* unlisted: the source namespaces whose LB listing is refused.
\* Result: dep_key -> the set of <<external_lb_name, lb_ns>> recorded
\* (empty when the key is not recorded).
scan_external_references(w, rem, to_move, lb_order, lb_deps, unlisted) ==
    LET all_dep_keys == AllDepKeys(lb_order, lb_deps)
        move_lb_names == {r[2] : r \in Range(to_move)}
        src_namespaces == {r[1] : r \in Range(to_move)} \ unlisted
        others == {lb \in rem : lb[2] = LBK /\ lb[1] \in src_namespaces
                                /\ lb[3] \notin move_lb_names}
        RefKeys(lb) ==
            LET refs == find_ns_refs(LbSpec(w, lb), lb[1])
            IN {<<guess_resource_type(refs[i][1]), refs[i][2]>> : i \in 1..Len(refs)}
    IN [dk \in DepKeysAll |->
          IF dk \in all_dep_keys
            THEN {<<lb[3], lb[1]>> : lb \in {o \in others : dk \in RefKeys(o)}}
            ELSE {}]

\* ------------------------------------------------------------------
\* orchestrator.py: detect_nonportable_certs;  client.py: is_cert_portable
\* ------------------------------------------------------------------
is_cert_portable(w, cert_obj) == cert_obj \notin w.np

DepObj(d) == <<d[3], d[1], d[2]>>

detect_nonportable_certs(w, rem, lb_order, lb_deps) ==
    LET deps == UNION {Range(lb_deps[n]) : n \in Range(lb_order)}
        secret_cert_keys ==
            {DepKey(d) : d \in {x \in deps : x[1] = CERTK /\ DepObj(x) \in rem
                                             /\ ~is_cert_portable(w, DepObj(x))}}
    IN [secret_cert_keys |-> secret_cert_keys,
        secret_cert_lb_map |->
            [key \in DepKeysAll |->
                IF key \in secret_cert_keys
                  THEN Filter(lb_order, {n \in Range(lb_order) :
                                            key \in Range(DepKeys(lb_deps[n]))})
                  ELSE <<>>],
        secret_cert_configs |->
            [key \in DepKeysAll |->
                IF key \in secret_cert_keys
                  THEN CHOOSE o \in {DepObj(x) : x \in deps} : <<o[2], o[3]>> = key
                  ELSE NoObj]]

\* ------------------------------------------------------------------
\* conflict.py and cli.py Phase 0c: conflict detection
\* ------------------------------------------------------------------
CONFLICT_PREFIX == "x"

make_prefixed_name(prefix, name) == prefix \o "-" \o name

\* NoName stands for None (skip)
resolve_conflict(name, conflict_prefix, conflict_action) ==
    IF conflict_action = "skip" THEN NoName
    ELSE make_prefixed_name(conflict_prefix, name)

\* Phase 0c over the names found in the target namespace
DetectConflicts(rem, target_namespace, conflict_prefix, conflict_action, lb_order, lb_deps, secret_cert_keys) ==
    LET lb_conflicts == {n \in Range(lb_order) : <<target_namespace, LBK, n>> \in rem}
        lb_res(n) == resolve_conflict(n, conflict_prefix, conflict_action)
        conflict_skipped_lbs == {n \in lb_conflicts : lb_res(n) = NoName}
        kept == Range(lb_order) \ conflict_skipped_lbs
        dep_conflicts ==
            {key \in UNION {Range(DepKeys(lb_deps[n])) : n \in kept} :
                key \notin secret_cert_keys
                /\ <<target_namespace, key[1], key[2]>> \in rem}
        dep_res(key) == resolve_conflict(key[2], conflict_prefix, conflict_action)
    IN [lb_rename_map |->
            [n \in LBNames |->
                IF n \in lb_conflicts /\ lb_res(n) # NoName THEN lb_res(n) ELSE NoName],
        dep_rename_map |->
            [key \in DepKeysAll |->
                IF key \in dep_conflicts /\ dep_res(key) # NoName THEN dep_res(key) ELSE NoName],
        conflict_skipped_lbs |-> conflict_skipped_lbs,
        conflict_skipped_deps |-> {key \in dep_conflicts : dep_res(key) = NoName}]

\* ------------------------------------------------------------------
\* client.py: domain_matches_cert;  orchestrator.py: match_certificates
\* ------------------------------------------------------------------
\* a domain is its sequence of characters
\* str.lower()
lower(s) == [i \in 1..Len(s) |-> IF s[i] = "A" THEN "a" ELSE IF s[i] = "B" THEN "b" ELSE s[i]]

\* str.strip(".")
RECURSIVE LStripDots(_)
LStripDots(s) == IF s # <<>> /\ Head(s) = "." THEN LStripDots(Tail(s)) ELSE s

StripDots(s) == Reverse(LStripDots(Reverse(LStripDots(s))))

\* str.endswith
endswith(s, t) == Len(s) >= Len(t) /\ SubSeq(s, Len(s) - Len(t) + 1, Len(s)) = t

\* a wildcard test that takes any prefix
AnyPrefix(prefix) == prefix = prefix

\* "if prefix and '.' not in prefix"
SingleLabel(prefix) == prefix # <<>> /\ "." \notin Range(prefix)

domain_matches_cert(domain, cert_domains) ==
    LET d == StripDots(lower(domain))
    IN \E cert_domain \in cert_domains :
          LET cd == StripDots(lower(cert_domain))
          IN \/ cd = d
             \/ /\ Len(cd) >= 2
                /\ SubSeq(cd, 1, 2) = <<"*", ".">>
                /\ LET wildcard_base == SubSeq(cd, 3, Len(cd))
                       suffix == <<".">> \o wildcard_base
                   IN /\ endswith(d, suffix)
                      /\ SingleLabel(SubSeq(d, 1, Len(d) - Len(suffix)))

extract_lb_domains(w, lb_obj) == IF lb_obj \in DOMAIN w.domains THEN w.domains[lb_obj] ELSE {}

extract_cert_domains(w, cert_obj) == IF cert_obj \in DOMAIN w.domains THEN w.domains[cert_obj] ELSE {}

\* the certificates of a namespace, in the order the list endpoint
\* returns them (by name)
CertNames == <<"c1", "c1s", "x-op">>

list_certificates_full(rem, namespace) ==
    Filter([i \in 1..Len(CertNames) |-> <<namespace, CERTK, CertNames[i]>>], rem)

\* first element of seq satisfying the test set, or NoObj
FirstIn(seq, ok) == IF Filter(seq, ok) = <<>> THEN NoObj ELSE Head(Filter(seq, ok))

MatchOne(w, available_certs, key, cert_obj, affected_lbs, lb_configs) ==
    LET cert_domains == extract_cert_domains(w, cert_obj)
        lb_domains == UNION {extract_lb_domains(w, lb_configs[n]) :
                                n \in {x \in Range(affected_lbs) : lb_configs[x] # NoObj}}
        avail == Range(available_certs)
        covers(c, ds) == extract_cert_domains(w, c) # {}
                         /\ \A d \in ds : domain_matches_cert(d, extract_cert_domains(w, c))
        s1 == IF lb_domains # {}
                THEN FirstIn(available_certs, {c \in avail : covers(c, lb_domains)})
                ELSE NoObj
        s2 == IF s1 = NoObj /\ lb_domains = {} /\ cert_domains # {}
                THEN FirstIn(available_certs, {c \in avail : covers(c, cert_domains)})
                ELSE s1
    IN IF s2 # NoObj THEN s2
       ELSE FirstIn(available_certs, {c \in avail : c[3] = key[2]})

\* matched: cert_key -> the matching certificate object, or NoObj
match_certificates(w, rem, secret_cert_keys, secret_cert_configs, secret_cert_lb_map, lb_configs, target_namespace, batches) ==
    LET available_certs == list_certificates_full(rem, target_namespace)
                           \o list_certificates_full(rem, SHARED)
        matched == [key \in DepKeysAll |->
                       IF key \in secret_cert_keys
                         THEN MatchOne(w, available_certs, key, secret_cert_configs[key],
                                       secret_cert_lb_map[key], lb_configs)
                         ELSE NoObj]
        direct == UNION {Range(secret_cert_lb_map[key]) :
                            key \in {k \in secret_cert_keys : matched[k] = NoObj}}
        expanded == direct \cup
                    UNION {Range(batches[i]) :
                              i \in {j \in 1..Len(batches) : Range(batches[j]) \cap direct # {}}}
    IN [matched |-> matched, cert_blocked_lbs |-> expanded]

\* ------------------------------------------------------------------
\* fingerprint.py
\* ------------------------------------------------------------------
\* The rows a CSV can hold, in the lexicographic order of their lines.
RowUniverse == << <<NS1, "lb-a">>, <<NS1, "lb-b">>, <<NS2, "lb-b">>, <<SHARED, "lb-b">> >>

\* sorted(lines): the rows in line order, duplicates kept
SortRows(rows) == Concat([i \in 1..Len(RowUniverse) |-> Filter(rows, {RowUniverse[i]})])

\* The digest of tenant | target namespace | sorted CSV lines; the hash
\* is taken to be collision free, so the digest is the hashed content.
compute_fingerprint(tenant, target_namespace, rows) ==
    [tenant |-> tenant, target_namespace |-> target_namespace, lines |-> SortRows(rows)]

\* read_fingerprint on a missing file returns the empty string
NoFingerprint == [tenant |-> "", target_namespace |-> "", lines |-> <<>>]
\* a digest left by a dry-run of other inputs
StaleFingerprint == [tenant |-> TENANT, target_namespace |-> "ns0", lines |-> <<>>]

\* ------------------------------------------------------------------
\* cli.py: the dry-run verification gate
\* ------------------------------------------------------------------
\* what the operator types at the prompt, as a sequence of tokens; " " is
\* white space
SKIP_DRYRUN == <<"SKIP-DRYRUN">>
NotPrompted == <<"-">>
Answers == {SKIP_DRYRUN, <<" ", "SKIP-DRYRUN", " ">>, <<"skip-dryrun">>, <<"y">>, <<>>}

\* str.strip()
RECURSIVE LStrip(_)
LStrip(a) == IF a # <<>> /\ Head(a) = " " THEN LStrip(Tail(a)) ELSE a

strip(a) == Reverse(LStrip(Reverse(LStrip(a))))

\* TRUE iff a prompt is shown: real run, no --skip-dry-run, no match
GatePrompts(dry_run, skip_dry_run, stored_fp, current_fingerprint) ==
    ~dry_run /\ ~skip_dry_run /\ stored_fp # current_fingerprint

\* a gate that lets every answer through
PromptAcceptsAny(answer) == answer = answer

\* TRUE iff the prompted run goes on (otherwise sys.exit(0))
PromptAccepts(answer) == strip(answer) = SKIP_DRYRUN

\* ------------------------------------------------------------------
\* State
\* ------------------------------------------------------------------
VARIABLES
    pc,          \* position in main()
    cfg,         \* arguments, config, CSV rows and the tenant of this run
    fp_file,     \* content of the fingerprint file
    stored_fp,   \* main's stored_fp, once read
    answer,      \* what the operator typed at the SKIP-DRYRUN prompt
    remote,      \* objects that exist in the tenant
    fails,       \* requests refused so far outside rollback
    rb_fails,    \* requests refused so far inside rollback_batch
    contacted,   \* TRUE once any request was sent to the API
    log,         \* create/delete requests issued, in order
    pre,         \* results of discovery and of the pre-flight phases
    results,     \* main's results list
    bi,          \* index of the batch being processed
    bt,          \* locals of the batch being processed
    totals,      \* total_moved / total_failed / total_reverted / total_skipped
    exit_code,   \* process exit status, -1 while running
    report,      \* the HTML report, once written
    pure         \* a function applied on its own: its input and its result

vars == <<pc, cfg, fp_file, stored_fp, answer, remote, fails, rb_fails, contacted, log, pre, results, bi, bt, totals, exit_code, report, pure>>

\* during a run of main no function is applied on its own
NoPure == [fn |-> "none"]

\* no report file written
NoReport == [written |-> FALSE, entries |-> <<>>]

Entries == {<<>>} \cup SeqsUpTo(Range(RowUniverse), MaxRows)

\* conflict_action matters only in the worlds that hold name conflicts;
\* the worlds of the name clashes and of the nested dependency are run
\* on lb-a with target ns2, the world of the skipped LB on lb-a and lb-b
\* with target ns2, the world of the two source namespaces with target
\* ns3; the GET leaves referring_objects empty in two worlds only
Invocations ==
    {c \in [dry_run : BOOLEAN, skip_dry_run : BOOLEAN,
            target_namespace : {NS2, SHARED, NS3}, entries : Entries,
            conflict_action : {"skip", "prefix"}, w : Worlds,
            referring_listed : BOOLEAN] :
        /\ c.dry_run => ~c.skip_dry_run
        /\ c.conflict_action = "prefix" => c.w \in {WIndep, WCertClash, WChain}
        /\ c.w \in {WCertClash, WChain, WNested} =>
              (c.target_namespace = NS2 /\ c.entries = << <<NS1, "lb-a">> >>)
        /\ c.w = WPoolClash =>
              (c.target_namespace = NS2 /\ c.entries = << <<NS1, "lb-a">>, <<NS1, "lb-b">> >>)
        /\ (c.w = WTwoNs) <=> (c.target_namespace = NS3)
        /\ c.w = WTwoNs => c.entries = << <<NS1, "lb-a">>, <<NS2, "lb-b">> >>
        /\ ~c.referring_listed => c.w \in {WNested, WPoolClash}}

NoResult == [status |-> "", error |-> <<>>]

NoPre ==
    [to_move |-> <<>>, move_set |-> {},
     lb_configs |-> [n \in LBNames |-> NoObj],
     lb_deps |-> [n \in LBNames |-> <<>>],
     lb_order |-> <<>>, discovery_failed |-> {}, batches |-> <<>>,
     lb_src_ns |-> [n \in LBNames |-> "?"],
     scan_recorded |-> {},
     external_dep_refs |-> [k \in DepKeysAll |-> {}],
     secret_cert_keys |-> {},
     matched |-> [k \in DepKeysAll |-> NoObj],
     cert_blocked_lbs |-> {},
     lb_rename_map |-> [n \in LBNames |-> NoName],
     dep_rename_map |-> [k \in DepKeysAll |-> NoName],
     conflict_skipped_lbs |-> {}, conflict_skipped_deps |-> {}]

NoBatch ==
    [batch_results |-> [n \in LBNames |-> NoResult],
     batch_dep_results |-> [k \in DepKeysAll |-> NoResult],
     in_dep_results |-> {},
     backup_failed_keys |-> {},
     batch_deps_ordered |-> <<>>,
     lb_planned |-> [n \in LBNames |-> <<>>],
     new_lb_name |-> [n \in LBNames |-> NoName],
     deleted_lbs |-> <<>>, deleted_deps |-> <<>>,
     created_deps |-> <<>>, created_lbs |-> <<>>,
     idx |-> 0, from |-> 0,
     remote_before |-> {},
     rolled_back |-> FALSE, rollback_failures |-> {},
     outcome |-> ""]

current_fingerprint == compute_fingerprint(TENANT, cfg.target_namespace, cfg.entries)

Init ==
    /\ pc = "start"
    /\ cfg \in Invocations
    /\ fp_file \in {NoFingerprint, StaleFingerprint,
                    compute_fingerprint(TENANT, cfg.target_namespace, cfg.entries)}
    /\ stored_fp = NoFingerprint
    /\ answer = NotPrompted
    /\ remote = cfg.w.objs
    /\ fails = 0
    /\ rb_fails = 0
    /\ contacted = FALSE
    /\ log = <<>>
    /\ pre = NoPre
    /\ results = <<>>
    /\ bi = 0
    /\ bt = NoBatch
    /\ totals = [moved |-> 0, failed |-> 0, reverted |-> 0, skipped |-> 0]
    /\ exit_code = -1
    /\ report = NoReport
    /\ pure = NoPure

\* ------------------------------------------------------------------
\* cli.py main: CSV, gate, to_move
\* ------------------------------------------------------------------
Exit(code) == pc' = "done" /\ exit_code' = code

\* "No HTTP load balancers found in CSV": return
NothingInCsv ==
    /\ pc = "start"
    /\ cfg.entries = <<>>
    /\ Exit(0)
    /\ UNCHANGED <<cfg, pure, report, fp_file, stored_fp, answer, remote, fails, rb_fails, contacted, log, pre, results, bi, bt, totals>>

\* read_fingerprint as main uses it, only when the file is consulted
ReadStored == IF cfg.dry_run \/ cfg.skip_dry_run THEN stored_fp ELSE fp_file

\* the prompt is answered with something else than SKIP-DRYRUN: sys.exit(0)
GateAbort ==
    /\ pc = "start"
    /\ cfg.entries # <<>>
    /\ GatePrompts(cfg.dry_run, cfg.skip_dry_run, fp_file, current_fingerprint)
    /\ \E a \in Answers :
          /\ ~PromptAccepts(a)
          /\ answer' = a
    /\ stored_fp' = ReadStored
    /\ Exit(0)
    /\ UNCHANGED <<cfg, pure, report, fp_file, remote, fails, rb_fails, contacted, log, pre, results, bi, bt, totals>>

\* dry-run, --skip-dry-run, matching fingerprint, or SKIP-DRYRUN typed
GatePass ==
    /\ pc = "start"
    /\ cfg.entries # <<>>
    /\ IF GatePrompts(cfg.dry_run, cfg.skip_dry_run, fp_file, current_fingerprint)
         THEN \E a \in Answers : PromptAccepts(a) /\ answer' = a
         ELSE answer' = answer
    /\ stored_fp' = ReadStored
    /\ pc' = "filter"
    /\ UNCHANGED <<cfg, pure, report, fp_file, remote, fails, rb_fails, contacted, log, pre, results, bi, bt, totals, exit_code>>

ToMove == Filter(cfg.entries, {r \in Range(cfg.entries) : r[1] # cfg.target_namespace})

\* "All LBs are already in the target namespace": return
AllInTarget ==
    /\ pc = "filter"
    /\ ToMove = <<>>
    /\ Exit(0)
    /\ UNCHANGED <<cfg, pure, report, fp_file, stored_fp, answer, remote, fails, rb_fails, contacted, log, pre, results, bi, bt, totals>>

\* ------------------------------------------------------------------
\* cli.py main: Phase 0 (discovery) and the pre-flight phases
\* ------------------------------------------------------------------
Budget == MaxFailures - fails

LbNameOrder == <<"lb-a", "lb-b">>

\* Phase 0: GET every LB of to_move, walk its references, cluster
Discover ==
    /\ pc = "filter"
    /\ ToMove # <<>>
    /\ \E failing \in SUBSET {i \in 1..Len(ToMove) : <<ToMove[i][1], LBK, ToMove[i][2]>> \in remote} :
          /\ Cardinality(failing) <= Budget
          /\ fails' = fails + Cardinality(failing)
          /\ LET disc == discover_lbs_and_deps(cfg.w, remote, ToMove, failing)
             IN pre' = [pre EXCEPT
                          !.to_move = ToMove,
                          !.move_set = Range(ToMove),
                          !.lb_configs = disc.lb_configs,
                          !.lb_deps = disc.lb_deps,
                          !.lb_order = disc.lb_order,
                          !.discovery_failed = disc.discovery_failed,
                          !.batches = cluster_batches(disc.lb_order, disc.lb_deps),
                          !.lb_src_ns = LbSrcNs(ToMove)]
    /\ contacted' = TRUE
    /\ pc' = "preflight"
    /\ UNCHANGED <<cfg, pure, report, fp_file, stored_fp, answer, remote, rb_fails, log, results, bi, bt, totals, exit_code>>

\* results for the LBs that failed discovery and for the conflict-skipped
InitialResults(entries, discovery_failed, conflict_skipped_lbs) ==
    LET src(n) == LbSrcNs(entries)[n]
        failed == Filter(LbNameOrder, discovery_failed)
        skipped == Filter(LbNameOrder, conflict_skipped_lbs)
    IN [i \in 1..Len(failed) |->
            [lb_name |-> failed[i], src_namespace |-> src(failed[i]),
             status |-> "failed", error |-> <<"discovery failed">>]]
       \o
       [i \in 1..Len(skipped) |->
            [lb_name |-> skipped[i], src_namespace |-> src(skipped[i]),
             status |-> "skipped", error |-> <<"name conflict">>]]

\* Phases 0b, 0d-detect, 0c, 0d up to the start of the batch loop.
\* unlisted: source namespaces whose LB listing is refused during the
\* external reference scan (the scan logs it and goes on).
Preflight ==
    /\ pc = "preflight"
    /\ \E unlisted \in SUBSET {r[1] : r \in Range(pre.to_move)} :
          /\ Cardinality(unlisted) <= Budget
          /\ unlisted # {} => AllDepKeys(pre.lb_order, pre.lb_deps) # {}
          /\ fails' = fails + Cardinality(unlisted)
          /\ LET ext == scan_external_references(cfg.w, remote, pre.to_move, pre.lb_order, pre.lb_deps, unlisted)
                 det == detect_nonportable_certs(cfg.w, remote, pre.lb_order, pre.lb_deps)
                 con == DetectConflicts(remote, cfg.target_namespace, CONFLICT_PREFIX, cfg.conflict_action, pre.lb_order, pre.lb_deps, det.secret_cert_keys)
                 to_move == Filter(pre.to_move, {r \in Range(pre.to_move) : r[2] \notin con.conflict_skipped_lbs})
                 lb_order == Filter(pre.lb_order, Range(pre.lb_order) \ con.conflict_skipped_lbs)
                 lb_deps == [n \in LBNames |-> IF n \in con.conflict_skipped_lbs THEN <<>> ELSE pre.lb_deps[n]]
                 batches == cluster_batches(lb_order, lb_deps)
                 lb_src_ns == IF con.conflict_skipped_lbs # {} THEN LbSrcNs(to_move) ELSE pre.lb_src_ns
                 mc == match_certificates(cfg.w, remote, det.secret_cert_keys, det.secret_cert_configs, det.secret_cert_lb_map, pre.lb_configs, cfg.target_namespace, batches)
                 first == InitialResults(cfg.entries, pre.discovery_failed, con.conflict_skipped_lbs)
             IN IF to_move = <<>>
                  THEN \* "All LBs skipped due to conflicts": return
                       /\ pre' = [pre EXCEPT !.to_move = to_move, !.move_set = Range(to_move),
                                             !.conflict_skipped_lbs = con.conflict_skipped_lbs]
                       /\ Exit(0)
                       /\ UNCHANGED <<results, totals, bi>>
                  ELSE /\ pre' = [pre EXCEPT
                                    !.to_move = to_move,
                                    !.move_set = Range(to_move),
                                    !.lb_order = lb_order,
                                    !.lb_deps = lb_deps,
                                    !.batches = batches,
                                    !.lb_src_ns = lb_src_ns,
                                    !.scan_recorded = {k \in DepKeysAll : ext[k] # {}},
                                    !.external_dep_refs = [k \in DepKeysAll |-> IF k \in det.secret_cert_keys THEN {} ELSE ext[k]],
                                    !.secret_cert_keys = det.secret_cert_keys,
                                    !.matched = mc.matched,
                                    !.cert_blocked_lbs = mc.cert_blocked_lbs,
                                    !.lb_rename_map = con.lb_rename_map,
                                    !.dep_rename_map = con.dep_rename_map,
                                    !.conflict_skipped_lbs = con.conflict_skipped_lbs,
                                    !.conflict_skipped_deps = con.conflict_skipped_deps]
                       /\ results' = first
                       /\ totals' = [totals EXCEPT !.failed = Cardinality(pre.discovery_failed),
                                                   !.skipped = Cardinality(con.conflict_skipped_lbs)]
                       /\ bi' = 1
                       /\ pc' = IF batches = <<>> THEN "finish" ELSE "batch"
                       /\ exit_code' = exit_code
    /\ UNCHANGED <<cfg, pure, report, fp_file, stored_fp, answer, remote, rb_fails, contacted, log, bt>>

\* list_http_loadbalancer_names / list_config_object_names /
\* list_certificates_full re-raise any error other than 403 and 404, and
\* main does not catch it: the process dies with a traceback.
PreflightCrash ==
    /\ pc = "preflight"
    /\ Budget >= 1
    /\ fails' = fails + 1
    /\ pc' = "crashed"
    /\ exit_code' = 1
    /\ UNCHANGED <<cfg, pure, report, fp_file, stored_fp, answer, remote, rb_fails, contacted, log, pre, results, bi, bt, totals>>

\* ------------------------------------------------------------------
\* cli.py main: the batch loop, up to the backup
\* ------------------------------------------------------------------
BatchNames == pre.batches[bi]

\* the dependency entries of the batch in the order the loops meet them
BatchDepList(batch) == Concat([i \in 1..Len(batch) |-> pre.lb_deps[batch[i]]])

BatchDepKeys(batch) == Range(DepKeys(BatchDepList(batch)))

\* a batch loop without the certificate pre-check
NeverCertBlocked(batch) == batch # batch

BatchCertBlocked(batch) == Range(batch) \cap pre.cert_blocked_lbs # {}

BatchPreBlocked(batch) == \E k \in BatchDepKeys(batch) : pre.external_dep_refs[k] # {}

\* results.append(result) for every LB of the batch
AppendResults(res, batch, bres) ==
    res \o [i \in 1..Len(batch) |->
              [lb_name |-> batch[i], src_namespace |-> pre.lb_src_ns[batch[i]],
               status |-> bres[batch[i]].status, error |-> bres[batch[i]].error]]

SetAll(bres, batch, status, error) ==
    [n \in LBNames |-> IF n \in Range(batch) THEN [status |-> status, error |-> error] ELSE bres[n]]

FreshBatch == [NoBatch EXCEPT !.from = Len(log), !.remote_before = remote]

\* a batch that ends before any create or delete request
EndUntouched(status, error, outcome, counts) ==
    LET bres == SetAll(NoBatch.batch_results, BatchNames, status, error)
    IN /\ bt' = [FreshBatch EXCEPT !.batch_results = bres, !.outcome = outcome]
       /\ results' = AppendResults(results, BatchNames, bres)
       /\ totals' = counts
       /\ pc' = "batch_done"

\* an LB of the batch is in cert_blocked_lbs
CertBlockedBatch ==
    /\ pc = "batch"
    /\ BatchCertBlocked(BatchNames)
    /\ EndUntouched("blocked", <<"unmatched certificate">>, "cert-blocked",
                    IF cfg.dry_run THEN totals
                    ELSE [totals EXCEPT !.failed = @ + Len(BatchNames)])
    /\ UNCHANGED <<cfg, pure, report, fp_file, stored_fp, answer, remote, fails, rb_fails, contacted, log, pre, bi, exit_code>>

\* a dependency of the batch is in external_dep_refs
PreBlockedBatch ==
    /\ pc = "batch"
    /\ ~BatchCertBlocked(BatchNames)
    /\ BatchPreBlocked(BatchNames)
    /\ EndUntouched("blocked", <<"external references">>, "pre-blocked",
                    IF cfg.dry_run THEN totals
                    ELSE [totals EXCEPT !.failed = @ + Len(BatchNames)])
    /\ UNCHANGED <<cfg, pure, report, fp_file, stored_fp, answer, remote, fails, rb_fails, contacted, log, pre, bi, exit_code>>

\* Ctrl-C at the confirmation prompt: input() raises KeyboardInterrupt,
\* which neither _confirm, main nor __main__ catches; the interpreter
\* ends on SIGINT, which the calling shell reports as status 130
InterruptAtPrompt ==
    /\ pc = "batch"
    /\ ~BatchCertBlocked(BatchNames)
    /\ ~BatchPreBlocked(BatchNames)
    /\ ~cfg.dry_run
    /\ pc' = "interrupted"
    /\ exit_code' = 130
    /\ UNCHANGED <<cfg, pure, report, fp_file, stored_fp, answer, remote, fails, rb_fails, contacted, log, pre, results, bi, bt, totals>>

\* without --force-all the operator is asked and answers no
DeclinedBatch ==
    /\ pc = "batch"
    /\ ~BatchCertBlocked(BatchNames)
    /\ ~BatchPreBlocked(BatchNames)
    /\ ~cfg.dry_run
    /\ EndUntouched("skipped", <<>>, "declined",
                    [totals EXCEPT !.skipped = @ + Len(BatchNames)])
    /\ UNCHANGED <<cfg, pure, report, fp_file, stored_fp, answer, remote, fails, rb_fails, contacted, log, pre, bi, exit_code>>

\* client.py filter_external_referrers over referrer objects
filter_external_referrers(referring_objects, move_set) ==
    {r \in referring_objects : r[1] \notin SKIP_NAMESPACES /\ <<r[1], r[3]>> \notin move_set}

\* Phase 1: GET every dependency once (first entry per key), check its
\* referrers.  failing: keys whose GET is refused.
RECURSIVE BackupFrom(_, _, _, _)
BackupFrom(deps, seen, failing, acc) ==
    IF deps = <<>> THEN acc
    ELSE
      LET d == Head(deps)
          key == DepKey(d)
          got == DepObj(d) \in remote /\ key \notin failing
          referring == extract_referring_objects(cfg.referring_listed, cfg.w, remote, DepObj(d))
          ext1 == filter_external_referrers(referring, pre.move_set)
          external_refs == IF ext1 = {} /\ pre.external_dep_refs[key] # {}
                             THEN {<<r[2], LBK, r[1]>> : r \in pre.external_dep_refs[key]}
                             ELSE ext1
          blocked == acc.batch_blocked \/ external_refs # {}
      IN IF key \in seen THEN BackupFrom(Tail(deps), seen, failing, acc)
         ELSE IF ~got
           THEN BackupFrom(Tail(deps), seen \cup {key}, failing,
                  [acc EXCEPT
                     !.batch_dep_results[key] =
                         [status |-> IF cfg.dry_run THEN "dry-run" ELSE "failed",
                          error |-> <<"backup failed">>],
                     !.in_dep_results = @ \cup {key},
                     !.backup_failed_keys = @ \cup {key},
                     !.batch_backup_failed = @ \/ ~cfg.dry_run])
         ELSE IF key \in pre.secret_cert_keys
           THEN BackupFrom(Tail(deps), seen \cup {key}, failing,
                  [acc EXCEPT
                     !.batch_dep_results[key] =
                         [status |-> IF cfg.dry_run THEN "manual-rework" ELSE "",
                          error |-> <<>>],
                     !.in_dep_results = @ \cup {key},
                     !.batch_deps_ordered = Append(@, d)])
         ELSE BackupFrom(Tail(deps), seen \cup {key}, failing,
                  [acc EXCEPT
                     !.batch_dep_results[key] =
                         IF external_refs # {}
                           THEN [status |-> "blocked", error |-> <<"external referrers">>]
                           ELSE [status |-> IF cfg.dry_run /\ ~blocked THEN "dry-run" ELSE "",
                                 error |-> <<>>],
                     !.in_dep_results = @ \cup {key},
                     !.batch_deps_ordered = Append(@, d),
                     !.batch_blocked = blocked])

BackupOf(batch, failing) ==
    BackupFrom(BatchDepList(batch), {}, failing,
        [batch_dep_results |-> NoBatch.batch_dep_results, in_dep_results |-> {},
         backup_failed_keys |-> {}, batch_deps_ordered |-> <<>>,
         batch_blocked |-> FALSE, batch_backup_failed |-> FALSE])

\* dep results still "" take the batch-level status
FillDeps(dres, in_res, status, error) ==
    [k \in DepKeysAll |->
        IF k \in in_res /\ dres[k].status = "" THEN [status |-> status, error |-> error]
        ELSE dres[k]]

Req(verb, obj, mode) == <<verb, obj[1], obj[2], obj[3], mode>>

\* a batch that creates its LBs before their dependencies
PhaseOrderLbsFirst == <<"del_lbs", "probe", "create_lbs", "create_deps", "verify">>

\* the phases of a real batch in the order main runs them: 3a delete
\* LBs, 3b probe and delete dependencies, 4a create dependencies,
\* 4b create LBs, 5 verify
PhaseOrder == <<"del_lbs", "probe", "create_deps", "create_lbs", "verify">>

PhaseIndex(ph) == CHOOSE i \in 1..Len(PhaseOrder) : PhaseOrder[i] = ph

\* the phase main enters after ph; the loop of 4a has nothing to do
\* when no dependency was backed up
RECURSIVE NextPhase(_, _)
NextPhase(ph, b) ==
    IF PhaseIndex(ph) = Len(PhaseOrder) THEN "batch_done"
    ELSE LET nx == PhaseOrder[PhaseIndex(ph) + 1]
         IN IF nx = "create_deps" /\ b.batch_deps_ordered = <<>>
              THEN NextPhase(nx, b)
              ELSE nx

\* dep_rename_map.items() and manual_rework_items.items(): the keys in
\* the order the pre-flight loops met them
DepsInOrder ==
    Dedup(Concat([i \in 1..Len(pre.lb_order) |-> DepKeys(pre.lb_deps[pre.lb_order[i]])]), {})

DepRenameItems == Filter(DepsInOrder, {k \in DepKeysAll : pre.dep_rename_map[k] # NoName})

ReworkItems == Filter(DepsInOrder, pre.secret_cert_keys)

\* "Apply dependency renames in spec references"; the loop of 4a leaves
\* out the dependency's own key
RECURSIVE ApplyDepRenames(_, _, _)
ApplyDepRenames(spec, items, own_key) ==
    IF items = <<>> THEN spec
    ELSE ApplyDepRenames(
            IF Head(items) = own_key THEN spec
            ELSE rewrite_name_refs(spec, Head(items)[2], pre.dep_rename_map[Head(items)],
                                   cfg.target_namespace),
            Tail(items), own_key)

\* "Rewrite cert references for matched non-portable certificates" of
\* the LBs that hold the certificate
RECURSIVE ApplyCertRewrites(_, _, _)
ApplyCertRewrites(spec, items, lb_name) ==
    IF items = <<>> THEN spec
    ELSE ApplyCertRewrites(
            IF pre.matched[Head(items)] # NoObj
               /\ Head(items) \in Range(DepKeys(pre.lb_deps[lb_name]))
              THEN rewrite_cert_ref(spec, Head(items)[2], pre.matched[Head(items)][3],
                                    pre.matched[Head(items)][1])
              ELSE spec,
            Tail(items), lb_name)

\* lb_planned[lb_name], the spec part
PlannedLbSpec(lb_name) ==
    ApplyCertRewrites(
        ApplyDepRenames(
            prepare_for_move(cfg.w, pre.lb_configs[lb_name], pre.lb_src_ns[lb_name],
                             cfg.target_namespace),
            DepRenameItems, <<>>),
        ReworkItems, lb_name)

\* a batch loop whose dry-run branch is never taken
NeverPlanOnly(dry_run) == dry_run /\ ~dry_run

\* "if dry_run:": the batch gets its planned configs and the loop goes
\* on to the next batch
PlanOnly(dry_run) == dry_run

\* Phase 1 and the batch-level abort conditions, planned configs, dry-run
Backup ==
    /\ pc = "batch"
    /\ ~BatchCertBlocked(BatchNames)
    /\ ~BatchPreBlocked(BatchNames)
    /\ \E failing \in SUBSET {DepKey(d) : d \in {x \in Range(BatchDepList(BatchNames)) : DepObj(x) \in remote}} :
          /\ Cardinality(failing) <= Budget
          /\ fails' = fails + Cardinality(failing)
          /\ LET bk == BackupOf(BatchNames, failing)
                 n == Len(BatchNames)
                 base == [FreshBatch EXCEPT
                            !.in_dep_results = bk.in_dep_results,
                            !.backup_failed_keys = bk.backup_failed_keys,
                            !.batch_deps_ordered = bk.batch_deps_ordered]
                 planned == [base EXCEPT
                               !.lb_planned = [lb \in LBNames |->
                                   IF lb \in Range(BatchNames) THEN PlannedLbSpec(lb) ELSE <<>>],
                               !.new_lb_name = [lb \in LBNames |->
                                   IF lb \in Range(BatchNames) THEN pre.lb_rename_map[lb] ELSE NoName]]
                 End(b, status, error, dstatus, outcome, counts) ==
                    LET bres == SetAll(NoBatch.batch_results, BatchNames, status, error)
                    IN /\ bt' = [b EXCEPT
                                   !.batch_results = bres,
                                   !.batch_dep_results = FillDeps(bk.batch_dep_results, bk.in_dep_results, dstatus, error),
                                   !.outcome = outcome]
                       /\ results' = AppendResults(results, BatchNames, bres)
                       /\ totals' = counts
                       /\ pc' = "batch_done"
             IN IF bk.batch_backup_failed /\ ~cfg.dry_run
                  THEN End(base, "failed", <<"backup aborted">>, "failed", "backup-failed",
                           [totals EXCEPT !.failed = @ + n])
                ELSE IF bk.batch_blocked
                  THEN End(base, "blocked", <<"batch blocked">>, "blocked", "blocked",
                           IF cfg.dry_run THEN totals ELSE [totals EXCEPT !.failed = @ + n])
                ELSE IF PlanOnly(cfg.dry_run)
                  THEN End(planned, "dry-run", <<>>, "", "dry-run", [totals EXCEPT !.moved = @ + n])
                ELSE /\ bt' = [planned EXCEPT !.batch_dep_results = bk.batch_dep_results, !.idx = 1]
                     /\ pc' = PhaseOrder[1]
                     /\ UNCHANGED <<results, totals>>
    /\ UNCHANGED <<cfg, pure, report, fp_file, stored_fp, answer, remote, rb_fails, contacted, log, pre, bi, exit_code>>

\* ------------------------------------------------------------------
\* rollback.py: rollback_batch
\* ------------------------------------------------------------------
\* a rollback that restores the LBs before the dependencies, in the
\* order they were deleted
RollbackStepsLbsFirst(src_ns, target_ns, deleted_lbs, deleted_deps, created_deps, created_lbs) ==
    [i \in 1..Len(created_lbs) |-> <<"DELETE", target_ns, LBK, Reverse(created_lbs)[i]>>]
    \o [i \in 1..Len(created_deps) |->
          <<"DELETE", target_ns, Reverse(created_deps)[i][1], Reverse(created_deps)[i][2]>>]
    \o [i \in 1..Len(deleted_lbs) |-> <<"CREATE", src_ns, LBK, deleted_lbs[i]>>]
    \o [i \in 1..Len(deleted_deps) |->
          <<"CREATE", src_ns, deleted_deps[i][1], deleted_deps[i][2]>>]

\* the requests of rollback_batch in the order it issues them
RollbackSteps(src_ns, target_ns, deleted_lbs, deleted_deps, created_deps, created_lbs) ==
    [i \in 1..Len(created_lbs) |-> <<"DELETE", target_ns, LBK, Reverse(created_lbs)[i]>>]
    \o [i \in 1..Len(created_deps) |->
          <<"DELETE", target_ns, Reverse(created_deps)[i][1], Reverse(created_deps)[i][2]>>]
    \o [i \in 1..Len(deleted_deps) |->
          <<"CREATE", src_ns, Reverse(deleted_deps)[i][1], Reverse(deleted_deps)[i][2]>>]
    \o [i \in 1..Len(deleted_lbs) |-> <<"CREATE", src_ns, LBK, Reverse(deleted_lbs)[i]>>]

\* refused: the positions of the steps the API refuses.  A delete of a
\* missing object and a create of an existing one fail as well.  Every
\* step is attempted whatever happened to the ones before it.
RECURSIVE RollbackFrom(_, _, _, _)
RollbackFrom(steps, i, refused, acc) ==
    IF i > Len(steps) THEN acc
    ELSE
      LET st == steps[i]
          obj == <<st[2], st[3], st[4]>>
          ok == i \notin refused
                /\ (IF st[1] = "DELETE" THEN obj \in acc.remote ELSE obj \notin acc.remote)
          logged == Append(acc.log, <<st[1], st[2], st[3], st[4], "rollback">>)
      IN IF st[1] = "DELETE"
           THEN RollbackFrom(steps, i + 1, refused,
                  [acc EXCEPT !.remote = IF ok THEN @ \ {obj} ELSE @, !.log = logged,
                              !.rollback_failures = IF ok THEN @ ELSE @ \cup {st}])
         ELSE IF st[3] = LBK
           THEN RollbackFrom(steps, i + 1, refused,
                  [acc EXCEPT
                     !.remote = IF ok THEN @ \cup {obj} ELSE @,
                     !.log = logged,
                     !.rollback_failures = IF ok THEN @ ELSE @ \cup {st},
                     !.batch_results[st[4]] =
                         IF ok THEN [@ EXCEPT !.status = "reverted"]
                         ELSE [@ EXCEPT !.error = Append(@, "ROLLBACK FAILED")]])
         ELSE RollbackFrom(steps, i + 1, refused,
                  [acc EXCEPT
                     !.remote = IF ok THEN @ \cup {obj} ELSE @,
                     !.log = logged,
                     !.rollback_failures = IF ok THEN @ ELSE @ \cup {st},
                     !.batch_dep_results[<<st[3], st[4]>>] =
                         IF ok THEN [status |-> "reverted", error |-> <<>>]
                         ELSE [@ EXCEPT !.error = Append(@, "ROLLBACK FAILED")]])

rollback_batch(rem, lg, src_ns, target_ns, b, refused) ==
    RollbackFrom(
        RollbackSteps(src_ns, target_ns, b.deleted_lbs, b.deleted_deps, b.created_deps, b.created_lbs),
        1, refused,
        [remote |-> rem, log |-> lg, batch_results |-> b.batch_results,
         batch_dep_results |-> b.batch_dep_results, rollback_failures |-> {}])

RollbackLen(b) == Len(b.deleted_lbs) + Len(b.deleted_deps) + Len(b.created_deps) + Len(b.created_lbs)

\* cli.py: what main does after rollback_batch returned.  b holds the
\* batch locals at the failure, lg the log including the failed request.
\* overwrite: the LB error text is assigned whatever it held (the
\* blocked-after-delete branch); otherwise only when it is empty.
AfterRollback(b, rem, lg, status, overwrite, msg, outcome) ==
    \E refused \in SUBSET (1..RollbackLen(b)) :
       /\ Cardinality(refused) <= MaxRollbackFailures - rb_fails
       /\ rb_fails' = rb_fails + Cardinality(refused)
       /\ LET rb == rollback_batch(rem, lg, pre.lb_src_ns[BatchNames[1]], cfg.target_namespace, b, refused)
              bres == [n \in LBNames |->
                         IF n \in Range(BatchNames) /\ rb.batch_results[n].status # "reverted"
                           THEN [status |-> status,
                                 error |-> IF overwrite \/ rb.batch_results[n].error = <<>>
                                             THEN <<msg>> ELSE rb.batch_results[n].error]
                           ELSE rb.batch_results[n]]
              reverted == {n \in Range(BatchNames) : bres[n].status = "reverted"}
          IN /\ remote' = rb.remote
             /\ log' = rb.log
             /\ bt' = [b EXCEPT
                         !.batch_results = bres,
                         !.batch_dep_results = FillDeps(rb.batch_dep_results, b.in_dep_results, status, <<msg>>),
                         !.rolled_back = TRUE,
                         !.rollback_failures = rb.rollback_failures,
                         !.outcome = outcome]
             /\ results' = AppendResults(results, BatchNames, bres)
             /\ totals' = [totals EXCEPT
                             !.reverted = @ + Cardinality(reverted),
                             !.failed = @ + Cardinality(Range(BatchNames) \ reverted)]
             /\ pc' = "batch_done"

\* ------------------------------------------------------------------
\* cli.py main: Phase 3 (delete) of a real run
\* ------------------------------------------------------------------
CurLb == BatchNames[bt.idx]
CurLbObj == <<pre.lb_src_ns[CurLb], LBK, CurLb>>

\* 3a. DELETE of one LB of the batch succeeds
DeleteLb ==
    /\ pc = "del_lbs"
    /\ CurLbObj \in remote
    /\ remote' = remote \ {CurLbObj}
    /\ log' = Append(log, Req("DELETE", CurLbObj, "move"))
    /\ bt' = [bt EXCEPT !.deleted_lbs = Append(@, CurLb),
                        !.idx = IF bt.idx = Len(BatchNames) THEN 1 ELSE @ + 1]
    /\ pc' = IF bt.idx = Len(BatchNames) THEN NextPhase("del_lbs", bt) ELSE "del_lbs"
    /\ UNCHANGED <<cfg, pure, report, fp_file, stored_fp, answer, fails, rb_fails, contacted, pre, results, bi, totals, exit_code>>

\* the request is refused, or the object is not there (404)
Refused(obj_present) ==
    \/ ~obj_present /\ fails' = fails
    \/ obj_present /\ Budget >= 1 /\ fails' = fails + 1

\* 3a. DELETE of an LB fails: rollback, batch failed
DeleteLbFail ==
    /\ pc = "del_lbs"
    /\ Refused(CurLbObj \in remote)
    /\ AfterRollback([bt EXCEPT !.batch_results[CurLb].error = <<"delete failed">>],
                     remote, Append(log, Req("DELETE", CurLbObj, "move")),
                     "failed", FALSE, "batch aborted", "lb-delete-failed")
    /\ UNCHANGED <<cfg, pure, report, fp_file, stored_fp, answer, contacted, pre, bi, exit_code>>

CurDep == bt.batch_deps_ordered[bt.idx]
CurKey == DepKey(CurDep)
CurDepObj == DepObj(CurDep)

DepSkipped(key) == key \in pre.conflict_skipped_deps \/ key \in pre.secret_cert_keys

\* 3b. a conflict-skipped dependency or a non-portable certificate
ProbeSkip ==
    /\ pc = "probe"
    /\ bt.idx <= Len(bt.batch_deps_ordered)
    /\ DepSkipped(CurKey)
    /\ bt' = [bt EXCEPT
                !.batch_dep_results[CurKey] =
                    IF CurKey \in pre.conflict_skipped_deps THEN @
                    ELSE [status |-> "manual-rework", error |-> <<"non-portable">>],
                !.idx = @ + 1]
    /\ UNCHANGED <<pc, cfg, pure, report, fp_file, stored_fp, answer, remote, fails, rb_fails, contacted, log, pre, results, bi, totals, exit_code>>

\* the referrers main sees on the re-fetched config
ExternalNow(obj) ==
    filter_external_referrers(
        extract_referring_objects(cfg.referring_listed, cfg.w, remote, obj), pre.move_set)

\* 3b. probe_delete_config_object returns []: the object is gone
ProbeDeleted ==
    /\ pc = "probe"
    /\ bt.idx <= Len(bt.batch_deps_ordered)
    /\ ~DepSkipped(CurKey)
    /\ CurDepObj \in remote
    /\ Referrers(cfg.w, remote, CurDepObj) = {}
    /\ remote' = remote \ {CurDepObj}
    /\ log' = Append(log, Req("DELETE", CurDepObj, "probe"))
    /\ bt' = [bt EXCEPT !.deleted_deps = Append(@, CurKey),
                        !.batch_dep_results[CurKey].status = "moved",
                        !.idx = @ + 1]
    /\ UNCHANGED <<pc, cfg, pure, report, fp_file, stored_fp, answer, fails, rb_fails, contacted, pre, results, bi, totals, exit_code>>

\* 3b. referrers remain, seen on the GET or reported by the probe (409):
\* rollback, batch blocked
ProbeBlocked ==
    /\ pc = "probe"
    /\ bt.idx <= Len(bt.batch_deps_ordered)
    /\ ~DepSkipped(CurKey)
    /\ CurDepObj \in remote
    /\ Referrers(cfg.w, remote, CurDepObj) # {}
    /\ AfterRollback([bt EXCEPT !.batch_dep_results[CurKey] =
                                   [status |-> "blocked", error |-> <<"still referenced">>]],
                     remote,
                     IF ExternalNow(CurDepObj) = {}
                       THEN Append(log, Req("DELETE", CurDepObj, "probe"))
                       ELSE log,
                     "blocked", TRUE, "blocked after LB deletion", "blocked-after-delete")
    /\ UNCHANGED <<cfg, pure, report, fp_file, stored_fp, answer, fails, contacted, pre, bi, exit_code>>

\* 3b. the probe fails on transport or with a status other than 409:
\* probe_delete_config_object raises, nothing in main catches it
ProbeCrash ==
    /\ pc = "probe"
    /\ bt.idx <= Len(bt.batch_deps_ordered)
    /\ ~DepSkipped(CurKey)
    /\ CurDepObj \in remote => ExternalNow(CurDepObj) = {}
    /\ Refused(CurDepObj \in remote)
    /\ log' = Append(log, Req("DELETE", CurDepObj, "probe"))
    /\ bt' = [bt EXCEPT !.outcome = "probe-failed"]
    /\ pc' = "crashed"
    /\ exit_code' = 1
    /\ UNCHANGED <<cfg, pure, report, fp_file, stored_fp, answer, remote, rb_fails, contacted, pre, results, bi, totals>>

\* 3b-actual. the dependencies the probe left are deleted; failAt = 0
\* when every delete succeeds, else the position of the failing one
RemainingDeps ==
    Filter(bt.batch_deps_ordered,
           {d \in Range(bt.batch_deps_ordered) :
               DepKey(d) \notin Range(bt.deleted_deps) /\ ~DepSkipped(DepKey(d))})

DeleteRemainingDeps ==
    /\ pc = "probe"
    /\ bt.idx > Len(bt.batch_deps_ordered)
    /\ \E failAt \in 0..Len(RemainingDeps) :
          LET n == IF failAt = 0 THEN Len(RemainingDeps) ELSE failAt - 1
              done == SubSeq(RemainingDeps, 1, n)
              gone == {DepObj(d) : d \in Range(done)}
              lg == log \o [i \in 1..n |-> Req("DELETE", DepObj(done[i]), "move")]
              b == [bt EXCEPT !.deleted_deps = @ \o DepKeys(done)]
          IN /\ gone \subseteq remote
             /\ IF failAt = 0
                  THEN /\ remote' = remote \ gone
                       /\ log' = lg
                       /\ bt' = [b EXCEPT !.idx = 1]
                       /\ pc' = NextPhase("probe", bt)
                       /\ UNCHANGED <<fails, rb_fails, results, totals>>
                  ELSE /\ Refused(DepObj(RemainingDeps[failAt]) \in remote)
                       /\ AfterRollback(
                            [b EXCEPT !.batch_dep_results[DepKey(RemainingDeps[failAt])] =
                                         [status |-> "failed", error |-> <<"delete failed">>]],
                            remote \ gone,
                            Append(lg, Req("DELETE", DepObj(RemainingDeps[failAt]), "move")),
                            "failed", FALSE, "batch aborted", "dep-delete-failed")
    /\ UNCHANGED <<cfg, pure, report, fp_file, stored_fp, answer, contacted, pre, bi, exit_code>>

\* ------------------------------------------------------------------
\* cli.py main: Phase 4 (create), Phase 5 (verify)
\* ------------------------------------------------------------------
\* 4a walks the dependencies bottom-up
\* creation in discovery order instead of its reverse
CreateOrderForward == bt.batch_deps_ordered

CreateOrder == Reverse(bt.batch_deps_ordered)
NewDep == CreateOrder[bt.idx]
NewDepKey == DepKey(NewDep)
ActualDepName == IF pre.dep_rename_map[NewDepKey] # NoName THEN pre.dep_rename_map[NewDepKey] ELSE NewDepKey[2]
NewDepObj == <<cfg.target_namespace, NewDepKey[1], ActualDepName>>

AfterDep == IF bt.idx = Len(CreateOrder) THEN NextPhase("create_deps", bt) ELSE "create_deps"
AfterDepIdx == IF bt.idx = Len(CreateOrder) THEN 1 ELSE bt.idx + 1

\* 4a. conflict-skipped (the object of the target is used) or non-portable
CreateDepSkip ==
    /\ pc = "create_deps"
    /\ DepSkipped(NewDepKey)
    /\ bt' = [bt EXCEPT
                !.batch_dep_results[NewDepKey] =
                    IF NewDepKey \in pre.conflict_skipped_deps
                      THEN [status |-> "skipped", error |-> <<"name conflict">>]
                      ELSE @,
                !.idx = AfterDepIdx]
    /\ pc' = AfterDep
    /\ UNCHANGED <<cfg, pure, report, fp_file, stored_fp, answer, remote, fails, rb_fails, contacted, log, pre, results, bi, totals, exit_code>>

\* 4a. POST of a dependency into the target namespace succeeds
CreateDep ==
    /\ pc = "create_deps"
    /\ ~DepSkipped(NewDepKey)
    /\ NewDepObj \notin remote
    /\ remote' = remote \cup {NewDepObj}
    /\ log' = Append(log, Req("CREATE", NewDepObj, "move"))
    /\ bt' = [bt EXCEPT !.created_deps = Append(@, <<NewDepKey[1], ActualDepName>>),
                        !.batch_dep_results[NewDepKey].status = "moved",
                        !.idx = AfterDepIdx]
    /\ pc' = AfterDep
    /\ UNCHANGED <<cfg, pure, report, fp_file, stored_fp, answer, fails, rb_fails, contacted, pre, results, bi, totals, exit_code>>

\* 4a. POST of a dependency fails: rollback, batch failed
CreateDepFail ==
    /\ pc = "create_deps"
    /\ ~DepSkipped(NewDepKey)
    /\ Refused(NewDepObj \notin remote)
    /\ AfterRollback([bt EXCEPT !.batch_dep_results[NewDepKey] =
                                   [status |-> "failed", error |-> <<"create failed">>]],
                     remote, Append(log, Req("CREATE", NewDepObj, "move")),
                     "failed", FALSE, "batch aborted", "dep-create-failed")
    /\ UNCHANGED <<cfg, pure, report, fp_file, stored_fp, answer, contacted, pre, bi, exit_code>>

ActualLbName == IF pre.lb_rename_map[CurLb] # NoName THEN pre.lb_rename_map[CurLb] ELSE CurLb
NewLbObj == <<cfg.target_namespace, LBK, ActualLbName>>

\* 4b. POST of an LB into the target namespace succeeds
CreateLb ==
    /\ pc = "create_lbs"
    /\ NewLbObj \notin remote
    /\ remote' = remote \cup {NewLbObj}
    /\ log' = Append(log, Req("CREATE", NewLbObj, "move"))
    /\ bt' = [bt EXCEPT !.created_lbs = Append(@, ActualLbName),
                        !.idx = IF bt.idx = Len(BatchNames) THEN 1 ELSE @ + 1]
    /\ pc' = IF bt.idx = Len(BatchNames) THEN NextPhase("create_lbs", bt) ELSE "create_lbs"
    /\ UNCHANGED <<cfg, pure, report, fp_file, stored_fp, answer, fails, rb_fails, contacted, pre, results, bi, totals, exit_code>>

\* 4b. POST of an LB fails: rollback, batch failed
CreateLbFail ==
    /\ pc = "create_lbs"
    /\ Refused(NewLbObj \notin remote)
    /\ AfterRollback([bt EXCEPT !.batch_results[CurLb].error = <<"create failed">>],
                     remote, Append(log, Req("CREATE", NewLbObj, "move")),
                     "failed", FALSE, "batch aborted", "lb-create-failed")
    /\ UNCHANGED <<cfg, pure, report, fp_file, stored_fp, answer, contacted, pre, bi, exit_code>>

\* Phase 5: GET the new configs (a failed GET only leaves the CNAME
\* unknown), every LB of the batch is "moved"
Verify ==
    /\ pc = "verify"
    /\ LET bres == [n \in LBNames |->
                      IF n \in Range(BatchNames) THEN [bt.batch_results[n] EXCEPT !.status = "moved"]
                      ELSE bt.batch_results[n]]
       IN /\ bt' = [bt EXCEPT
                      !.batch_results = bres,
                      !.batch_dep_results =
                          [k \in DepKeysAll |->
                              IF k \in bt.in_dep_results /\ bt.batch_dep_results[k].status = ""
                                THEN [bt.batch_dep_results[k] EXCEPT !.status = "moved"]
                                ELSE bt.batch_dep_results[k]],
                      !.outcome = "moved"]
          /\ results' = AppendResults(results, BatchNames, bres)
    /\ totals' = [totals EXCEPT !.moved = @ + Len(BatchNames)]
    /\ pc' = "batch_done"
    /\ UNCHANGED <<cfg, pure, report, fp_file, stored_fp, answer, remote, fails, rb_fails, contacted, log, pre, bi, exit_code>>

\* the for loop goes to the next batch, or ends
NextBatch ==
    /\ pc = "batch_done"
    /\ bi' = bi + 1
    /\ pc' = IF bi + 1 > Len(pre.batches) THEN "finish" ELSE "batch"
    /\ UNCHANGED <<cfg, pure, report, fp_file, stored_fp, answer, remote, fails, rb_fails, contacted, log, pre, results, bt, totals, exit_code>>

\* ------------------------------------------------------------------
\* cli.py main: summary, fingerprint management, exit status
\* ------------------------------------------------------------------
write_fingerprint(fingerprint) == fingerprint

delete_fingerprint == NoFingerprint

\* report/mover_report.py: the report file holds one entry per result
generate_mover_report(res) == [written |-> TRUE, entries |-> res]

Finish ==
    /\ pc = "finish"
    /\ fp_file' = IF cfg.dry_run THEN write_fingerprint(current_fingerprint)
                  ELSE IF totals.failed = 0 THEN delete_fingerprint
                  ELSE fp_file
    /\ report' = IF results # <<>> THEN generate_mover_report(results) ELSE report
    /\ Exit(IF totals.failed > 0 THEN 1 ELSE 0)
    /\ UNCHANGED <<cfg, pure, stored_fp, answer, remote, fails, rb_fails, contacted, log, pre, results, bi, bt, totals>>

Next ==
    \/ NothingInCsv
    \/ GateAbort
    \/ GatePass
    \/ AllInTarget
    \/ Discover
    \/ Preflight
    \/ PreflightCrash
    \/ CertBlockedBatch
    \/ PreBlockedBatch
    \/ InterruptAtPrompt
    \/ DeclinedBatch
    \/ Backup
    \/ DeleteLb
    \/ DeleteLbFail
    \/ ProbeSkip
    \/ ProbeDeleted
    \/ ProbeBlocked
    \/ ProbeCrash
    \/ DeleteRemainingDeps
    \/ CreateDepSkip
    \/ CreateDep
    \/ CreateDepFail
    \/ CreateLb
    \/ CreateLbFail
    \/ Verify
    \/ NextBatch
    \/ Finish

Spec == Init /\ [][Next]_vars

\* ------------------------------------------------------------------
\* Properties
\* ------------------------------------------------------------------
\* the batch got as far as sending a create or delete request
Executed ==
    bt.outcome \in {"moved", "lb-delete-failed", "dep-delete-failed", "blocked-after-delete",
                    "dep-create-failed", "lb-create-failed", "probe-failed"}

BatchEnded == bi >= 1 /\ bi <= Len(pre.batches) /\ pc \in {"batch_done", "crashed"}

SrcLbObj(n) == <<pre.lb_src_ns[n], LBK, n>>

TgtLbObj(n) ==
    <<cfg.target_namespace, LBK,
      IF pre.lb_rename_map[n] # NoName THEN pre.lb_rename_map[n] ELSE n>>

\* the LBs and dependencies of the batch that existed when it started
BatchSourceObjs ==
    ({SrcLbObj(n) : n \in Range(BatchNames)}
       \cup {DepObj(d) : d \in Range(BatchDepList(BatchNames))})
    \cap bt.remote_before

CreatedObjs ==
    {<<cfg.target_namespace, LBK, bt.created_lbs[i]>> : i \in 1..Len(bt.created_lbs)}
    \cup {<<cfg.target_namespace, bt.created_deps[i][1], bt.created_deps[i][2]>> :
             i \in 1..Len(bt.created_deps)}

MovedAll ==
    \A n \in Range(BatchNames) : TgtLbObj(n) \in remote /\ SrcLbObj(n) \notin remote

RestoredAll == BatchSourceObjs \subseteq remote /\ CreatedObjs \cap remote = {}

\* C1: when the processing of a batch of a real run ends, and no request
\* of rollback failed, either every LB of the batch is in the target
\* namespace and gone from its source namespace, or every LB and
\* dependency of the batch is back in its source namespace and nothing
\* the batch created is left in the target namespace.
C1_BatchesMoveAtomically ==
    (BatchEnded /\ Executed /\ bt.rollback_failures = {}) => (MovedAll \/ RestoredAll)

\* the objects the batch deleted from source, with their recorded error
DeletedLbObjs == {SrcLbObj(bt.deleted_lbs[i]) : i \in 1..Len(bt.deleted_lbs)}

DepObjOf(key) ==
    DepObj(CHOOSE d \in Range(bt.batch_deps_ordered) : DepKey(d) = key)

RollbackRequests ==
    {i \in (bt.from + 1)..Len(log) : log[i][5] = "rollback"}

\* C2: once main has handled a failure of a mutating phase of a batch,
\* every LB and dependency the batch deleted from source (probe-deleted
\* ones included) exists in source again or carries ROLLBACK FAILED in
\* its recorded error, and rollback attempted every one of its steps.
C2_RollbackCompleteness ==
    (pc = "batch_done" /\ bi <= Len(pre.batches) /\ Executed /\ bt.outcome # "moved") =>
        /\ \A n \in Range(bt.deleted_lbs) :
              \/ SrcLbObj(n) \in remote
              \/ "ROLLBACK FAILED" \in Range(bt.batch_results[n].error)
        /\ \A k \in Range(bt.deleted_deps) :
              \/ DepObjOf(k) \in remote
              \/ "ROLLBACK FAILED" \in Range(bt.batch_dep_results[k].error)
        /\ Cardinality(RollbackRequests) = RollbackLen(bt)

\* C3: when the probing delete of a dependency fails on transport or
\* with a status other than 409, rollback runs, the LBs and dependencies
\* deleted so far are back in source, and the run goes on.
C3_ProbeFailureRollsBack ==
    bt.outcome = "probe-failed" =>
        /\ bt.rolled_back
        /\ DeletedLbObjs \subseteq remote
        /\ pc # "crashed"

\* C4: no create or delete request is ever issued in a reserved
\* namespace (system, shared), as source or as target of the move.
C4_NoReservedMove ==
    \A i \in 1..Len(log) : log[i][2] \notin SKIP_NAMESPACES

\* the gate let the run through: the digest read from the file equals
\* the computed one, or the answer without surrounding white space is
\* SKIP-DRYRUN
GateCleared == stored_fp = current_fingerprint \/ strip(answer) = SKIP_DRYRUN

GatedRun == ~cfg.dry_run /\ ~cfg.skip_dry_run

\* C5: in a real run without --skip-dry-run the API is contacted only
\* when the stored digest equals the computed one or the answer typed at
\* the prompt is SKIP-DRYRUN once surrounding white space is removed;
\* otherwise the run ends with status 0 and not a single request.
C5_FingerprintGate ==
    GatedRun =>
        /\ contacted => GateCleared
        /\ (pc # "start" /\ ~GateCleared) =>
               (pc = "done" /\ exit_code = 0 /\ ~contacted /\ log = <<>>)

\* a prompted run that was let through and moved something
C5_PromptedRunProceeds ==
    /\ GatedRun
    /\ stored_fp # current_fingerprint
    /\ strip(answer) = SKIP_DRYRUN
    /\ contacted
    /\ log # <<>>

\* C5 as stated: the API is contacted only when the digests are equal
\* or the operator typed exactly SKIP-DRYRUN.
C5_ExactAnswerOnly ==
    GatedRun => (contacted => (stored_fp = current_fingerprint \/ answer = SKIP_DRYRUN))

\* positions in the log of the requests of the current batch
BatchLog == (bt.from + 1)..Len(log)

IsLbReq(i, verb) == log[i][1] = verb /\ log[i][3] = LBK

IsDepReq(i, verb) == log[i][1] = verb /\ log[i][3] # LBK

\* C6: in a batch that ended moved, every create of a dependency comes
\* before every create of an LB, and every delete of an LB before every
\* delete of a dependency, the probing delete included.
C6_PhaseOrder ==
    bt.outcome = "moved" =>
        \A i, j \in BatchLog :
            /\ (IsDepReq(i, "CREATE") /\ IsLbReq(j, "CREATE")) => i < j
            /\ (IsLbReq(i, "DELETE") /\ IsDepReq(j, "DELETE")) => i < j

\* a moved batch of two LBs and a dependency they share
C6_MovedBatchWithSharedDep ==
    /\ bt.outcome = "moved"
    /\ Cardinality({i \in BatchLog : IsLbReq(i, "DELETE")}) = 2
    /\ Cardinality({i \in BatchLog : IsLbReq(i, "CREATE")}) = 2
    /\ \E i \in BatchLog : IsDepReq(i, "DELETE") /\ log[i][5] = "probe"
    /\ \E i \in BatchLog : IsDepReq(i, "CREATE")

\* the current batch has ended
AtBatchEnd == pc = "batch_done" /\ bi >= 1 /\ bi <= Len(pre.batches)

\* no create or delete request since the batch began, tenant as it was
BatchUntouched == Len(log) = bt.from /\ remote = bt.remote_before

AllLbsEnd(status) == \A n \in Range(BatchNames) : bt.batch_results[n].status = status

\* a dependency of the batch was recorded by the external reference scan
HasScanRecordedDep(keys) == BatchDepKeys(BatchNames) \cap keys # {}

\* an LB of the batch references a non-portable certificate that no
\* certificate of the target or shared namespace matches
HasUnmatchedCert ==
    \E n \in Range(BatchNames) : \E d \in Range(pre.lb_deps[n]) :
        DepKey(d) \in pre.secret_cert_keys /\ pre.matched[DepKey(d)] = NoObj

\* C7: a batch with a dependency, other than a non-portable certificate,
\* recorded by the external reference scan, or with an LB that needs an
\* unmatched non-portable certificate, ends blocked; a batch of a real
\* run with a failed backup GET ends failed; in a dry-run a failed backup
\* GET leaves the batch dry-run or blocked.  In all of these no create
\* or delete request was sent and the tenant is as the batch found it.
C7_NoMutationWhenBlocked ==
    AtBatchEnd =>
        /\ (HasScanRecordedDep(pre.scan_recorded \ pre.secret_cert_keys) \/ HasUnmatchedCert) =>
               (BatchUntouched /\ AllLbsEnd("blocked"))
        /\ (bt.backup_failed_keys # {} /\ ~cfg.dry_run) =>
               (BatchUntouched /\ AllLbsEnd("failed"))
        /\ (bt.backup_failed_keys # {} /\ cfg.dry_run) =>
               (BatchUntouched /\ (AllLbsEnd("dry-run") \/ AllLbsEnd("blocked")))

\* a real run whose batch was stopped by a failed backup GET
C7_BackupFailedBatch ==
    /\ AtBatchEnd
    /\ ~cfg.dry_run
    /\ bt.backup_failed_keys # {}
    /\ bt.outcome = "backup-failed"

\* C7 as stated: any dependency recorded by the scan blocks the batch,
\* and a failed backup GET makes the batch end failed in every run.
C7_AsStated ==
    AtBatchEnd =>
        /\ (HasScanRecordedDep(pre.scan_recorded) \/ HasUnmatchedCert) =>
               (BatchUntouched /\ AllLbsEnd("blocked"))
        /\ bt.backup_failed_keys # {} =>
               (BatchUntouched /\ AllLbsEnd("failed"))

SomeLbFailedOrBlocked ==
    \E i \in 1..Len(results) : results[i].status \in {"failed", "blocked"}

\* C8: when the process has ended, its exit status is other than 0 if
\* and only if some LB of the run ended failed or blocked, in real runs
\* and in dry-runs.
C8_ExitStatus ==
    pc = "done" => (exit_code # 0 <=> SomeLbFailedOrBlocked)

\* C9: when a create of a dependency in the target fails and every
\* request of rollback succeeds, the deleted LBs and dependencies are
\* back in source, each restored LB is reverted, and the process ends
\* with exit status 1.
C9_DepCreateFailure ==
    (bt.outcome = "dep-create-failed" /\ bt.rollback_failures = {}) =>
        /\ DeletedLbObjs \subseteq remote
        /\ \A k \in Range(bt.deleted_deps) : DepObjOf(k) \in remote
        /\ \A n \in Range(bt.deleted_lbs) : bt.batch_results[n].status = "reverted"
        /\ (pc = "done" => exit_code = 1)

\* C10: a dry-run that ended normally left the digest of its inputs in
\* the fingerprint file.
C10_DryRunWritesFingerprint ==
    (cfg.dry_run /\ pc = "done") => fp_file = current_fingerprint

\* a real run that went past the gate and ended normally
RealRunEnded ==
    /\ ~cfg.dry_run
    /\ pc = "done"
    /\ (answer = NotPrompted \/ PromptAccepts(answer))

\* C11: a real run that ends with no LB failed or blocked has deleted
\* the fingerprint file, so that a real run of the same inputs is
\* prompted; a real run that ends with an LB failed or blocked leaves
\* the file as it read it at the gate.
C11_OneShotFingerprint ==
    /\ (RealRunEnded /\ ~SomeLbFailedOrBlocked) =>
           /\ fp_file = delete_fingerprint
           /\ GatePrompts(FALSE, FALSE, fp_file, current_fingerprint)
    /\ (GatedRun /\ pc \in {"done", "crashed"} /\ SomeLbFailedOrBlocked) =>
           fp_file = stored_fp

\* ------------------------------------------------------------------
\* fingerprint.py: compute_fingerprint over the text of the CSV file
\* ------------------------------------------------------------------
\* Lines of the CSV file.
MaxCsvLines == 3
\* Characters of a line.
MaxLineLen == 2

\* the characters of the modelled files, in code point order
CharOrder == <<" ", "#", "a", "b", "|">>

LineChars == {" ", "#", "a", "b"}

Ord(c) == CHOOSE i \in 1..Len(CharOrder) : CharOrder[i] = c

\* a < b for strings (sequences of characters)
RECURSIVE StrLess(_, _)
StrLess(a, b) ==
    IF b = <<>> THEN FALSE
    ELSE IF a = <<>> THEN TRUE
    ELSE IF Head(a) = Head(b) THEN StrLess(Tail(a), Tail(b))
    ELSE Ord(Head(a)) < Ord(Head(b))

RECURSIVE Insert(_, _)
Insert(x, ss) ==
    IF ss = <<>> THEN <<x>>
    ELSE IF StrLess(Head(ss), x) THEN <<Head(ss)>> \o Insert(x, Tail(ss))
    ELSE <<x>> \o ss

\* sorted(iterable)
RECURSIVE sorted(_)
sorted(ss) == IF ss = <<>> THEN <<>> ELSE Insert(Head(ss), sorted(Tail(ss)))

startswith(a, c) == a # <<>> /\ Head(a) = c

\* the lines that count: line.strip() non-empty and
\* line.lstrip() not starting with "#"
KeptLines(content) ==
    {i \in 1..Len(content) :
        strip(content[i]) # <<>> /\ ~startswith(LStrip(content[i]), "#")}

RECURSIVE StripKept(_, _, _)
StripKept(content, i, kept) ==
    IF i > Len(content) THEN <<>>
    ELSE IF i \in kept THEN <<strip(content[i])>> \o StripKept(content, i + 1, kept)
    ELSE StripKept(content, i + 1, kept)

\* an order of the lines that sorted() must undo
UnsortedLines(content) == StripKept(content, 1, KeptLines(content))

csv_lines(content) == sorted(StripKept(content, 1, KeptLines(content)))

\* sep.join(lines)
RECURSIVE Join(_, _)
Join(ss, sep) ==
    IF ss = <<>> THEN <<>>
    ELSE IF Len(ss) = 1 THEN Head(ss)
    ELSE Head(ss) \o <<sep>> \o Join(Tail(ss), sep)

\* the text that is hashed; csv_content is the file as its sequence of
\* lines (splitlines).  SHA-256 is taken to be collision free.
fp_input(tenant, target_namespace, csv_content) ==
    <<tenant, "|", target_namespace, "|">> \o Join(csv_lines(csv_content), "|")

Lines(n) == {<<>>} \cup UNION {[1..k -> LineChars] : k \in 1..n}

CsvContents(n, len) == {<<>>} \cup UNION {[1..k -> Lines(len)] : k \in 1..n}

CommentLines == {l \in Lines(MaxLineLen) : startswith(l, "#")}

BlankLines == {l \in Lines(MaxLineLen) : \A i \in 1..Len(l) : l[i] = " "}

InsertAt(ss, i, x) == SubSeq(ss, 1, i - 1) \o <<x>> \o SubSeq(ss, i, Len(ss))

RemoveAt(ss, i) == SubSeq(ss, 1, i - 1) \o SubSeq(ss, i + 1, Len(ss))

\* compute_fingerprint applied to a CSV file; first is the digest of
\* the file before it was edited
FpCall(content, first) ==
    [fn |-> "compute_fingerprint", csv |-> content,
     digest |-> fp_input(TENANT, NS2, content), first |-> first]

InitFingerprint ==
    /\ pc = "pure"
    /\ cfg = CHOOSE c \in Invocations : TRUE
    /\ fp_file = NoFingerprint
    /\ stored_fp = NoFingerprint
    /\ answer = NotPrompted
    /\ remote = {}
    /\ fails = 0
    /\ rb_fails = 0
    /\ contacted = FALSE
    /\ log = <<>>
    /\ pre = NoPre
    /\ results = <<>>
    /\ bi = 0
    /\ bt = NoBatch
    /\ totals = [moved |-> 0, failed |-> 0, reverted |-> 0, skipped |-> 0]
    /\ exit_code = -1
    /\ report = NoReport
    /\ \E content \in CsvContents(MaxCsvLines - 1, MaxLineLen) :
          pure = FpCall(content, fp_input(TENANT, NS2, content))

mainvars == <<pc, cfg, fp_file, stored_fp, answer, remote, fails, rb_fails, contacted, log, pre, results, bi, bt, totals, exit_code, report>>

\* the file is edited and compute_fingerprint is applied to it again
Recompute(content) ==
    /\ pure.fn = "compute_fingerprint"
    /\ pure' = FpCall(content, pure.first)
    /\ UNCHANGED mainvars

PermuteLines ==
    \E i \in 1..(Len(pure.csv) - 1) :
       Recompute([pure.csv EXCEPT ![i] = pure.csv[i + 1], ![i + 1] = pure.csv[i]])

AddCommentLine ==
    /\ Len(pure.csv) < MaxCsvLines
    /\ \E i \in 1..(Len(pure.csv) + 1), l \in CommentLines : Recompute(InsertAt(pure.csv, i, l))

RemoveCommentLine ==
    \E i \in 1..Len(pure.csv) : pure.csv[i] \in CommentLines /\ Recompute(RemoveAt(pure.csv, i))

AddBlankLine ==
    /\ Len(pure.csv) < MaxCsvLines
    /\ \E i \in 1..(Len(pure.csv) + 1), l \in BlankLines : Recompute(InsertAt(pure.csv, i, l))

RemoveBlankLine ==
    \E i \in 1..Len(pure.csv) : pure.csv[i] \in BlankLines /\ Recompute(RemoveAt(pure.csv, i))

\* white space is added at the start or the end of a line
PadLine ==
    \E i \in 1..Len(pure.csv) :
       /\ Len(pure.csv[i]) < MaxLineLen
       /\ \/ Recompute([pure.csv EXCEPT ![i] = <<" ">> \o @])
          \/ Recompute([pure.csv EXCEPT ![i] = @ \o <<" ">>])

\* white space is removed from the start or the end of a line
TrimLine ==
    \E i \in 1..Len(pure.csv) :
       \/ /\ startswith(pure.csv[i], " ")
          /\ Recompute([pure.csv EXCEPT ![i] = Tail(@)])
       \/ /\ startswith(Reverse(pure.csv[i]), " ")
          /\ Recompute([pure.csv EXCEPT ![i] = SubSeq(@, 1, Len(@) - 1)])

NextFingerprint ==
    \/ PermuteLines
    \/ AddCommentLine
    \/ RemoveCommentLine
    \/ AddBlankLine
    \/ RemoveBlankLine
    \/ PadLine
    \/ TrimLine

SpecFingerprint == InitFingerprint /\ [][NextFingerprint]_vars

\* C12: permuting the lines of the CSV, adding or removing lines that
\* start with "#" or blank lines, and changing the white space at the
\* start or end of a line leave the digest of (tenant, target
\* namespace, CSV) as it was.
C12_FingerprintIdempotence ==
    pure.fn = "compute_fingerprint" => pure.digest = pure.first

\* an edited file: a comment line and two padded rows out of order
C12_EditedCsv ==
    /\ pure.fn = "compute_fingerprint"
    /\ Len(pure.csv) = 3
    /\ \E i \in 1..3 : pure.csv[i] \in CommentLines
    /\ \E i, j \in 1..3 :
          /\ i < j
          /\ pure.csv[i] = <<" ", "b">>
          /\ pure.csv[j] = <<"a", " ">>
    /\ csv_lines(pure.csv) = << <<"a">>, <<"b">> >>

\* ------------------------------------------------------------------
\* orchestrator.py: cluster_batches applied to any lb_deps map
\* ------------------------------------------------------------------
\* LBs of the lb_deps map given to cluster_batches.
MaxClusterLbs == 3

LbPool == <<"lb-a", "lb-b", "lb-c", "lb-d">>

\* dependency entries (resource_type, name, namespace); two of them
\* have the name in common, two the resource type
DepPool == << <<OPK, "op", NS1>>, <<CERTK, "c1", NS1>>, <<OPK, "c1", NS1>> >>

\* the dependency lists an LB can have: the entries of DepPool at the
\* positions of a set, in pool order
DepLists == {Filter(DepPool, S) : S \in SUBSET Range(DepPool)}

Perms(S) == {f \in [1..Cardinality(S) -> S] : \A i, j \in 1..Cardinality(S) : f[i] = f[j] => i = j}

ClusterInputs ==
    UNION {[order : Perms({LbPool[i] : i \in 1..k}),
            lb_deps : [{LbPool[i] : i \in 1..k} -> DepLists]] : k \in 1..MaxClusterLbs}

InitCluster ==
    /\ pc = "pure"
    /\ cfg = CHOOSE c \in Invocations : TRUE
    /\ fp_file = NoFingerprint
    /\ stored_fp = NoFingerprint
    /\ answer = NotPrompted
    /\ remote = {}
    /\ fails = 0
    /\ rb_fails = 0
    /\ contacted = FALSE
    /\ log = <<>>
    /\ pre = NoPre
    /\ results = <<>>
    /\ bi = 0
    /\ bt = NoBatch
    /\ totals = [moved |-> 0, failed |-> 0, reverted |-> 0, skipped |-> 0]
    /\ exit_code = -1
    /\ report = NoReport
    /\ \E in \in ClusterInputs :
          pure = [fn |-> "cluster_batches", order |-> in.order, lb_deps |-> in.lb_deps,
                  returned |-> FALSE, batches |-> <<>>]

\* batches, _ = cluster_batches(lb_deps)
ApplyClusterBatches ==
    /\ pure.fn = "cluster_batches"
    /\ ~pure.returned
    /\ pure' = [pure EXCEPT !.returned = TRUE,
                            !.batches = cluster_batches(pure.order, pure.lb_deps)]
    /\ UNCHANGED mainvars

NextCluster == ApplyClusterBatches

SpecCluster == InitCluster /\ [][NextCluster]_vars

ClusterNames == Range(pure.order)

\* a and b have a dependency (resource_type, name) in common
Shares(a, b) ==
    Range(DepKeys(pure.lb_deps[a])) \cap Range(DepKeys(pure.lb_deps[b])) # {}

SameBatch(a, b) == \E i \in 1..Len(pure.batches) : {a, b} \subseteq Range(pure.batches[i])

\* the LBs linked to those of S by a chain of LBs, each having a
\* dependency in common with the next
RECURSIVE Linked(_)
Linked(S) ==
    LET more == S \cup {n \in ClusterNames : \E m \in S : Shares(m, n)}
    IN IF more = S THEN S ELSE Linked(more)

\* C13: cluster_batches puts every LB of the map in exactly one batch;
\* two LBs with a dependency in common are in the same batch, and two
\* LBs are in the same batch exactly when a chain of LBs, each with a
\* dependency in common with the next, links them.
C13_BatchCorrectness ==
    (pure.fn = "cluster_batches" /\ pure.returned) =>
        /\ \A n \in ClusterNames :
              Cardinality({<<i, j>> \in (1..Len(pure.batches)) \X (1..MaxClusterLbs) :
                              j <= Len(pure.batches[i]) /\ pure.batches[i][j] = n}) = 1
        /\ \A a, b \in ClusterNames : Shares(a, b) /\ a # b => SameBatch(a, b)
        /\ \A a, b \in ClusterNames : SameBatch(a, b) <=> b \in Linked({a})

\* three LBs in one batch, two of them with no dependency in common
C13_ChainedBatch ==
    /\ pure.fn = "cluster_batches"
    /\ pure.returned
    /\ Len(pure.batches) = 1
    /\ Len(pure.batches[1]) = 3
    /\ \E a, b \in ClusterNames : a # b /\ ~Shares(a, b)

\* C13 as stated: LBs with a dependency in common share a batch, LBs
\* with none in common are in different batches.
C13_AsStated ==
    (pure.fn = "cluster_batches" /\ pure.returned) =>
        \A a, b \in ClusterNames :
            a # b => (SameBatch(a, b) <=> Shares(a, b))

\* ------------------------------------------------------------------
\* Non-portable certificates
\* ------------------------------------------------------------------
IsSecretCertReq(i) == <<log[i][3], log[i][4]>> \in pre.secret_cert_keys

\* the POST of LB lb_name into the target was issued in this batch
LbCreateRequested(lb_name) ==
    \E i \in BatchLog :
        log[i] = Req("CREATE",
                     <<cfg.target_namespace, LBK,
                       IF pre.lb_rename_map[lb_name] # NoName
                         THEN pre.lb_rename_map[lb_name] ELSE lb_name>>,
                     "move")

\* the places of the LB's spec that hold a reference to a non-portable
\* certificate for which a match was found
MatchedCertRefs(lb_name) ==
    LET spec == LbSpec(cfg.w, SrcLbObj(lb_name))
    IN {i \in 1..Len(spec) :
           /\ guess_resource_type(spec[i].path) = CERTK
           /\ <<CERTK, spec[i].name>> \in pre.secret_cert_keys
           /\ pre.matched[<<CERTK, spec[i].name>>] # NoObj}

\* C14: no create or delete request (probe included) is ever issued for
\* a certificate classified non-portable, and in every LB payload posted
\* to the target each reference to a matched non-portable certificate
\* reads (matched name, matched namespace).
C14_SecretCertStaysInSource ==
    /\ \A i \in 1..Len(log) : ~IsSecretCertReq(i)
    /\ \A lb_name \in LBNames :
          LbCreateRequested(lb_name) =>
              \A i \in MatchedCertRefs(lb_name) :
                  LET m == pre.matched[<<CERTK, LbSpec(cfg.w, SrcLbObj(lb_name))[i].name>>]
                  IN /\ bt.lb_planned[lb_name][i].name = m[3]
                     /\ bt.lb_planned[lb_name][i].namespace = m[1]

\* ------------------------------------------------------------------
\* Interruption at a confirmation prompt
\* ------------------------------------------------------------------
\* C15: when the operator interrupts the run at the confirmation prompt
\* of a batch, after at least one batch was finished, the report file
\* holds the outcomes recorded so far and the exit status is 130 (no
\* further batch is processed: nothing runs after the interruption).
C15_CleanInterruption ==
    (pc = "interrupted" /\ bi > 1) =>
        /\ report = generate_mover_report(results)
        /\ exit_code = 130

\* ------------------------------------------------------------------
\* Who issues create and delete requests
\* ------------------------------------------------------------------
\* C16: a step of a dry-run, and a step of a real run taken while main
\* reads the CSV, passes the gate, discovers, batches, runs the
\* pre-flight phases or writes the summary and the report, issues no
\* create or delete request and leaves the tenant as it is.
C16_OnlyExecutorMutates ==
    [][(cfg.dry_run \/ pc \in {"start", "filter", "preflight", "finish"})
          => (log' = log /\ remote' = remote)]_vars

\* a dry-run went through a batch, with a refused request on its way,
\* and ended
C16_DryRunPlanned ==
    /\ cfg.dry_run
    /\ pc = "done"
    /\ bt.outcome = "dry-run"
    /\ fails > 0
    /\ report.written

\* ------------------------------------------------------------------
\* client.py: discover_dependencies applied to any reference graph
\* ------------------------------------------------------------------
\* references one spec can hold
MaxRefs == 2

\* a malicious-user-mitigation object: the path of a reference to it
\* holds none of the keywords of PATH_KEYWORD_TO_RESOURCE
MUM == <<"malicious_user_mitigations", "mum">>

RefsOf(keys) == {<<>>} \cup SeqsUpTo(keys, MaxRefs)

\* tenants in which lb-a, the origin pool op and the certificate c1 hold
\* references; op and c1 may be missing (their GET fails)
GraphWorlds ==
    {[objs |-> {A} \cup present,
      refs |-> (A :> ra) @@ (P :> rp) @@ (K :> <<>>),
      np |-> {},
      domains |-> NoDomains] :
        ra \in RefsOf({OP, CRT, MUM}), rp \in RefsOf({OP, CRT, MUM}),
        present \in SUBSET {P, K}}

InitDiscover ==
    /\ pc = "pure"
    /\ cfg = CHOOSE c \in Invocations : TRUE
    /\ fp_file = NoFingerprint
    /\ stored_fp = NoFingerprint
    /\ answer = NotPrompted
    /\ remote = {}
    /\ fails = 0
    /\ rb_fails = 0
    /\ contacted = FALSE
    /\ log = <<>>
    /\ pre = NoPre
    /\ results = <<>>
    /\ bi = 0
    /\ bt = NoBatch
    /\ totals = [moved |-> 0, failed |-> 0, reverted |-> 0, skipped |-> 0]
    /\ exit_code = -1
    /\ report = NoReport
    /\ \E w \in GraphWorlds :
          pure = [fn |-> "discover_dependencies", w |-> w, returned |-> FALSE, ordered |-> <<>>]

\* deps = client.discover_dependencies(ns, lb_config)
ApplyDiscover ==
    /\ pure.fn = "discover_dependencies"
    /\ ~pure.returned
    /\ pure' = [pure EXCEPT !.returned = TRUE,
                            !.ordered = discover_dependencies(pure.w, pure.w.objs, NS1, "lb-a")]
    /\ UNCHANGED mainvars

NextDiscover == ApplyDiscover

SpecDiscover == InitDiscover /\ [][NextDiscover]_vars

\* the LB and the entries of the plan whose spec could be fetched
Reached == {A} \cup ({DepObj(e) : e \in Range(pure.ordered)} \cap pure.w.objs)

InPlan(r) == \E e \in Range(pure.ordered) : e[2] = r[2] /\ e[3] = r[3]

\* C17: once discover_dependencies has returned, every reference record
\* of the source namespace found in the spec of the LB, or of an object
\* the search reached, is an entry of the plan.
C17_GraphClosure ==
    (pure.fn = "discover_dependencies" /\ pure.returned) =>
        \A obj \in Reached :
            \A r \in Range(find_ns_refs(ObjSpec(pure.w, obj), NS1)) : InPlan(r)

\* ------------------------------------------------------------------
\* Conflict policies
\* ------------------------------------------------------------------
\* a request of the log that names an object of this kind and name
Requested(kind, name) == \E i \in 1..Len(log) : log[i][3] = kind /\ log[i][4] = name

\* the places of the LB's spec that hold a reference to the key
RefsTo(lb_name, key) ==
    LET spec == LbSpec(cfg.w, SrcLbObj(lb_name))
    IN {i \in 1..Len(spec) :
           guess_resource_type(spec[i].path) = key[1] /\ spec[i].name = key[2]}

SkippedLbsUntouched ==
    \A lb_name \in pre.conflict_skipped_lbs : ~Requested(LBK, lb_name)

SkippedLbsReported ==
    pc = "done" =>
        \A lb_name \in pre.conflict_skipped_lbs :
            \E r \in Range(results) : r.lb_name = lb_name /\ r.status = "skipped"

SkippedDepsUntouched ==
    \A key \in pre.conflict_skipped_deps : ~Requested(key[1], key[2])

SkippedDepsReferenced ==
    \A lb_name \in LBNames :
        LbCreateRequested(lb_name) =>
            \A key \in pre.conflict_skipped_deps :
                \A i \in RefsTo(lb_name, key) :
                    /\ bt.lb_planned[lb_name][i].name = key[2]
                    /\ bt.lb_planned[lb_name][i].namespace = cfg.target_namespace

\* C18: under the policy skip, no create or delete request names an LB
\* that was skipped on a name conflict and, when main has ended, its
\* result reads skipped; no create or delete request names a dependency
\* that was skipped on a name conflict, and every LB payload posted to
\* the target references that dependency as (unchanged name, target
\* namespace).
C18_ConflictSkip ==
    cfg.conflict_action = "skip" =>
        /\ SkippedLbsUntouched
        /\ SkippedLbsReported
        /\ SkippedDepsUntouched
        /\ SkippedDepsReferenced

\* the batch posted this object to the target
CreatedInBatch(kind, name) ==
    \E i \in BatchLog : log[i] = Req("CREATE", <<cfg.target_namespace, kind, name>>, "move")

\* the LBs and the portable dependencies of the batch whose name was
\* taken in the target when the batch began
TakenLbs == {n \in Range(BatchNames) : <<cfg.target_namespace, LBK, n>> \in bt.remote_before}

TakenDeps ==
    {key \in BatchDepKeys(BatchNames) \ pre.secret_cert_keys :
        <<cfg.target_namespace, key[1], key[2]>> \in bt.remote_before}

\* C19: under the policy prefix, when a batch was moved, every LB and
\* every dependency of it whose name was taken in the target was posted
\* there as <prefix>-<name>, every reference of a posted LB payload to
\* such a dependency reads (<prefix>-<name>, target namespace), and the
\* LB has status moved with its new name recorded.
C19_ConflictPrefix ==
    (cfg.conflict_action = "prefix" /\ AtBatchEnd /\ bt.outcome = "moved") =>
        /\ \A n \in TakenLbs :
              /\ CreatedInBatch(LBK, make_prefixed_name(CONFLICT_PREFIX, n))
              /\ bt.batch_results[n].status = "moved"
              /\ bt.new_lb_name[n] = make_prefixed_name(CONFLICT_PREFIX, n)
        /\ \A key \in TakenDeps :
              /\ CreatedInBatch(key[1], make_prefixed_name(CONFLICT_PREFIX, key[2]))
              /\ \A n \in Range(BatchNames) :
                    \A i \in RefsTo(n, key) :
                        /\ bt.lb_planned[n][i].name = make_prefixed_name(CONFLICT_PREFIX, key[2])
                        /\ bt.lb_planned[n][i].namespace = cfg.target_namespace

\* ------------------------------------------------------------------
\* config.py: validate_xc_name;  cli.py main: what is checked before
\* the first request
\* ------------------------------------------------------------------
\* _XC_NAME_RE admits 1 + 63 characters
XcNameMax == 64
\* rows of the CSV handed to _read_csv
MaxCsvRows == 2

LowerDigits == {"a", "y", "o", "u", "r", "t", "1"}

\* TRUE iff validate_xc_name returns (no ConfigError); a name is its
\* sequence of characters
validate_xc_name(name) ==
    /\ name # <<>>
    /\ Len(name) <= XcNameMax
    /\ name[1] \in LowerDigits
    /\ \A i \in 2..Len(name) : name[i] \in LowerDigits \cup {".", "-"}

Repeat(c, n) == [i \in 1..n |-> c]

\* names a config file and a CSV can hold
NameSamples ==
    {<<>>, <<"a">>, <<"a", "-", "1", ".">>, Repeat("a", XcNameMax),
     Repeat("a", XcNameMax + 1), <<"A">>, <<"-", "a">>, <<"a", "/", "t">>,
     <<"y", "o", "u", "r", "-", "t">>}

\* names a CSV field can hold
FieldSamples == {<<>>, <<"a">>, <<"A">>, <<"a", "/", "t">>}

CsvRows == {<<>>} \cup SeqsUpTo(FieldSamples \X FieldSamples, MaxCsvRows)

\* load_config refuses an empty or placeholder tenant name
PlaceholderTenant(tenant_name) ==
    tenant_name = <<>>
    \/ (Len(tenant_name) >= 5 /\ SubSeq(tenant_name, 1, 5) = <<"y", "o", "u", "r", "-">>)

InitStartup ==
    /\ pc = "pure"
    /\ cfg = CHOOSE c \in Invocations : TRUE
    /\ fp_file = NoFingerprint
    /\ stored_fp = NoFingerprint
    /\ answer = NotPrompted
    /\ remote = {}
    /\ fails = 0
    /\ rb_fails = 0
    /\ contacted = FALSE
    /\ log = <<>>
    /\ pre = NoPre
    /\ results = <<>>
    /\ bi = 0
    /\ bt = NoBatch
    /\ totals = [moved |-> 0, failed |-> 0, reverted |-> 0, skipped |-> 0]
    /\ exit_code = -1
    /\ report = NoReport
    /\ \E tenant_name \in NameSamples, target_namespace \in NameSamples, rows \in CsvRows :
          pure = [fn |-> "main", step |-> "load_config",
                  tenant_name |-> tenant_name, target_namespace |-> target_namespace,
                  rows |-> rows, entries |-> <<>>, url |-> <<>>, exit |-> -1]

StartupExit(code) == pure' = [pure EXCEPT !.step = "exited", !.exit = code]

\* cfg = load_config(args.config); ConfigError is caught: exit 1
LoadConfig ==
    /\ pure.fn = "main" /\ pure.step = "load_config"
    /\ IF PlaceholderTenant(pure.tenant_name)
         THEN StartupExit(1)
         ELSE pure' = [pure EXCEPT !.step = "target"]
    /\ UNCHANGED mainvars

\* target_namespace: exit 1 when empty, ConfigError (uncaught) when
\* validate_xc_name refuses it
CheckTarget ==
    /\ pure.fn = "main" /\ pure.step = "target"
    /\ IF pure.target_namespace = <<>> \/ ~validate_xc_name(pure.target_namespace)
         THEN StartupExit(1)
         ELSE pure' = [pure EXCEPT !.step = "csv"]
    /\ UNCHANGED mainvars

\* _read_csv: rows with an empty field are left out, the others are
\* validated; ConfigError is not caught; no entry: return
ReadCsv ==
    /\ pure.fn = "main" /\ pure.step = "csv"
    /\ LET rows == pure.rows
           used == Filter(rows, {r \in Range(rows) : r[1] # <<>> /\ r[2] # <<>>})
       IN IF \E r \in Range(used) : ~validate_xc_name(r[1]) \/ ~validate_xc_name(r[2])
            THEN StartupExit(1)
          ELSE IF used = <<>>
            THEN StartupExit(0)
          ELSE pure' = [pure EXCEPT !.step = "filter", !.entries = used]
    /\ UNCHANGED mainvars

\* rows of the target namespace are left out; none left: return;
\* otherwise XCClient(api_url, ...) and the first GET, whose URL holds
\* the tenant name, the namespace and the LB name
FirstRequest ==
    /\ pure.fn = "main" /\ pure.step = "filter"
    /\ LET to_move == Filter(pure.entries,
                             {r \in Range(pure.entries) : r[1] # pure.target_namespace})
       IN IF to_move = <<>>
            THEN StartupExit(0)
            ELSE pure' = [pure EXCEPT !.step = "contacted",
                                      !.url = <<pure.tenant_name, to_move[1][1], to_move[1][2]>>]
    /\ UNCHANGED mainvars

NextStartup == LoadConfig \/ CheckTarget \/ ReadCsv \/ FirstRequest

SpecStartup == InitStartup /\ [][NextStartup]_vars

\* what the run has placed into a request URL passed the identifier check
UrlPartsChecked ==
    /\ validate_xc_name(pure.target_namespace)
    /\ \A i \in 1..Len(pure.url) : validate_xc_name(pure.url[i])

\* C20: when main has sent its first request, the tenant name, the
\* target namespace and the CSV namespace and LB name of the request
\* URL match the identifier regex; a run holding a value that does not
\* match never gets that far.
C20_ValidatedBeforeRemote ==
    (pure.fn = "main" /\ pure.step = "contacted") => UrlPartsChecked

\* ------------------------------------------------------------------
\* Identity of a move request
\* ------------------------------------------------------------------
\* what discovery yields for the CSV without its repeated rows
DiscoveredWithoutRepeats ==
    LET rows == Dedup(ToMove, {})
        disc == discover_lbs_and_deps(cfg.w, remote, rows, {})
    IN [lb_configs |-> disc.lb_configs, lb_deps |-> disc.lb_deps,
        batches |-> cluster_batches(disc.lb_order, disc.lb_deps),
        lb_src_ns |-> LbSrcNs(rows)]

SameAsWithoutRepeats ==
    /\ pre.lb_configs = DiscoveredWithoutRepeats.lb_configs
    /\ pre.lb_deps = DiscoveredWithoutRepeats.lb_deps
    /\ pre.batches = DiscoveredWithoutRepeats.batches
    /\ pre.lb_src_ns = DiscoveredWithoutRepeats.lb_src_ns

\* every row to move has a result of its own namespace and name
EachRowHasOutcome ==
    \A r \in Range(ToMove) :
        \E res \in Range(results) : res.src_namespace = r[1] /\ res.lb_name = r[2]

\* C21: after a discovery in which no GET failed, the configs, the
\* dependency plans, the batches and the source namespaces the batch loop
\* works from are those of the CSV without its repeated rows; and when
\* main has written its report every row to move, identified by
\* (namespace, name), has a result of its own.
C21_RequestIdentity ==
    /\ (pc = "preflight" /\ fails = 0) => SameAsWithoutRepeats
    /\ (pc = "done" /\ report.written) => EachRowHasOutcome

\* ---------------------------------------------------------------
\* domain_matches_cert on its own (client.py 656-678)
\* ---------------------------------------------------------------
MaxDomainLen == 5

DomainChars == {"a", "b", ".", "*"}

\* the strings extract_lb_domains and extract_cert_domains return:
\* lower-cased, without leading or trailing dots, not empty
DomainNames ==
    {s \in UNION {[1..n -> DomainChars] : n \in 1..MaxDomainLen} : StripDots(lower(s)) = s}

InitDomainMatch ==
    /\ pc = "pure"
    /\ cfg = CHOOSE c \in Invocations : TRUE
    /\ fp_file = NoFingerprint
    /\ stored_fp = NoFingerprint
    /\ answer = NotPrompted
    /\ remote = {}
    /\ fails = 0
    /\ rb_fails = 0
    /\ contacted = FALSE
    /\ log = <<>>
    /\ pre = NoPre
    /\ results = <<>>
    /\ bi = 0
    /\ bt = NoBatch
    /\ totals = [moved |-> 0, failed |-> 0, reverted |-> 0, skipped |-> 0]
    /\ exit_code = -1
    /\ report = NoReport
    /\ \E d \in DomainNames : \E c \in DomainNames :
          pure = [fn |-> "domain_matches_cert", domain |-> d, cert_domain |-> c,
                  returned |-> FALSE, covers |-> FALSE]

\* domain_matches_cert(domain, [cert_domain])
ApplyDomainMatch ==
    /\ pure.fn = "domain_matches_cert"
    /\ ~pure.returned
    /\ pure' = [pure EXCEPT !.returned = TRUE,
                            !.covers = domain_matches_cert(pure.domain, {pure.cert_domain})]
    /\ UNCHANGED mainvars

NextDomainMatch == ApplyDomainMatch

SpecDomainMatch == InitDomainMatch /\ [][NextDomainMatch]_vars

\* the certificate name is "*.B"
IsWildcardName(c) == Len(c) >= 3 /\ c[1] = "*" /\ c[2] = "."

\* d = L.B for one non-empty label L without dots, where c = "*.B"
OneLabelBefore(d, c) ==
    \E k \in 1..Len(d) :
        /\ \A i \in 1..k : d[i] # "."
        /\ SubSeq(d, k + 1, Len(d)) = Tail(c)

\* C22: once domain_matches_cert has returned, a wildcard certificate
\* name *.B covers the domain exactly when the domain is one non-empty
\* dot-free label followed by .B, and a non-wildcard certificate name
\* covers the domain exactly when the two are identical.
C22_WildcardOneLabel ==
    (pure.fn = "domain_matches_cert" /\ pure.returned) =>
        (pure.covers <=> IF IsWildcardName(pure.cert_domain)
                         THEN OneLabelBefore(pure.domain, pure.cert_domain)
                         ELSE pure.domain = pure.cert_domain)

\* *.a.b was asked about a.a.b and covers it
C22_WildcardAsked ==
    /\ pure.fn = "domain_matches_cert"
    /\ pure.returned
    /\ pure.cert_domain = <<"*", ".", "a", ".", "b">>
    /\ pure.domain = <<"a", ".", "a", ".", "b">>
    /\ pure.covers

\* ------------------------------------------------------------------
\* Order of the requests of rollback_batch (rollback.py 44-108)
\* ------------------------------------------------------------------
\* the rollback requests of the current batch, in the order issued
RollbackLog ==
    Filter(SubSeq(log, bt.from + 1, Len(log)), {e \in Range(log) : e[5] = "rollback"})

\* 1 delete LB in target, 2 delete dependency in target,
\* 3 re-create dependency in source, 4 re-create LB in source
RollbackStage(e) ==
    IF e[1] = "DELETE" THEN (IF e[3] = LBK THEN 1 ELSE 2)
    ELSE (IF e[3] = LBK THEN 4 ELSE 3)

\* kind and name of the rollback requests of one stage, in order
StageKeys(stage) ==
    LET of_stage == Filter(RollbackLog, {e \in Range(RollbackLog) : RollbackStage(e) = stage})
    IN [i \in 1..Len(of_stage) |-> <<of_stage[i][3], of_stage[i][4]>>]

AsLbKeys(names) == [i \in 1..Len(names) |-> <<LBK, names[i]>>]

BatchSourceNamespaces == {pre.lb_src_ns[n] : n \in Range(BatchNames)}

\* C23: when rollback_batch has run for a batch, its requests are, in
\* this order: the deletes in the target of the created LBs in reverse
\* creation order, the deletes in the target of the created dependencies
\* in reverse creation order, the re-creates in source of the deleted
\* dependencies in reverse deletion order, and the re-creates in source
\* of the deleted LBs in reverse deletion order; no re-create comes
\* before a delete and no LB re-create before a dependency re-create.
C23_RollbackOrder ==
    (pc = "batch_done" /\ bi <= Len(pre.batches) /\ bt.rolled_back) =>
        /\ \A i \in 1..Len(RollbackLog) : \A j \in i..Len(RollbackLog) :
              RollbackStage(RollbackLog[i]) <= RollbackStage(RollbackLog[j])
        /\ \A e \in Range(RollbackLog) :
              IF e[1] = "DELETE" THEN e[2] = cfg.target_namespace
              ELSE e[2] \in BatchSourceNamespaces
        /\ StageKeys(1) = Reverse(AsLbKeys(bt.created_lbs))
        /\ StageKeys(2) = Reverse(bt.created_deps)
        /\ StageKeys(3) = Reverse(bt.deleted_deps)
        /\ StageKeys(4) = Reverse(AsLbKeys(bt.deleted_lbs))

\* a rollback of a batch of two LBs after a dependency and one of the
\* LBs were created in the target
C23_RollbackAfterCreate ==
    /\ pc = "batch_done"
    /\ bi <= Len(pre.batches)
    /\ bt.rolled_back
    /\ Len(bt.deleted_lbs) >= 2
    /\ Len(bt.created_lbs) >= 1
    /\ Len(bt.created_deps) >= 1

\* ------------------------------------------------------------------
\* Order of the objects inside the phases of a batch
\* ------------------------------------------------------------------
\* kind and name of the requests the batch issued outside rollback, in
\* order: verb is DELETE or CREATE, lbs tells LBs from dependencies
BatchRequestKeys(verb, lbs) ==
    LET batch_log == SubSeq(log, bt.from + 1, Len(log))
        chosen == Filter(batch_log,
                         {e \in Range(batch_log) :
                             e[1] = verb /\ e[5] # "rollback" /\ ((e[3] = LBK) <=> lbs)})
    IN [i \in 1..Len(chosen) |-> <<chosen[i][3], chosen[i][4]>>]

\* the dependencies of the member LBs, first seen first, each once,
\* without those that stay in source or are taken from the target
MergedBfsMoved ==
    LET merged == Dedup(DepKeys(BatchDepList(BatchNames)), {})
    IN Filter(merged, {k \in Range(merged) : ~DepSkipped(k)})

\* rename_map.get(key, name)
NameInTarget(rename_map, k, name) ==
    IF rename_map[k] # NoName THEN rename_map[k] ELSE name

\* C24: when a batch has run without failure, its LBs were deleted and
\* later created in batch order, its dependencies were deleted from
\* source in the merged first-seen order of the member LBs' plans, and
\* they were created in the target in exactly the reverse of that order.
C24_OrderInsidePhase ==
    (AtBatchEnd /\ bt.outcome = "moved") =>
        /\ BatchRequestKeys("DELETE", TRUE) = AsLbKeys(BatchNames)
        /\ BatchRequestKeys("CREATE", TRUE) =
              [i \in 1..Len(BatchNames) |->
                  <<LBK, NameInTarget(pre.lb_rename_map, BatchNames[i], BatchNames[i])>>]
        /\ BatchRequestKeys("DELETE", FALSE) = MergedBfsMoved
        /\ BatchRequestKeys("CREATE", FALSE) =
              [i \in 1..Len(MergedBfsMoved) |->
                  <<Reverse(MergedBfsMoved)[i][1],
                    NameInTarget(pre.dep_rename_map, Reverse(MergedBfsMoved)[i],
                                 Reverse(MergedBfsMoved)[i][2])>>]

\* a batch with two dependencies was moved
C24_MovedSeveral ==
    /\ AtBatchEnd
    /\ bt.outcome = "moved"
    /\ Len(MergedBfsMoved) >= 2

\* ------------------------------------------------------------------
\* Order of a dependency plan
\* ------------------------------------------------------------------
\* entry x of the plan is an object whose spec holds a reference to
\* entry y
PlanEntryRefers(x, y) ==
    /\ DepObj(x) \in pure.w.objs
    /\ \E r \in Range(find_ns_refs(ObjSpec(pure.w, DepObj(x)), NS1)) :
          guess_resource_type(r[1]) = y[1] /\ r[2] = y[2]

\* C25: in the plan discover_dependencies returned, an object whose spec
\* references another object of the plan stands before that object.
C25_ParentsFirst ==
    (pure.fn = "discover_dependencies" /\ pure.returned) =>
        \A i \in 1..Len(pure.ordered) : \A j \in 1..Len(pure.ordered) :
            (i # j /\ PlanEntryRefers(pure.ordered[i], pure.ordered[j])) => i < j

\* ------------------------------------------------------------------
\* client.py: discover_dependencies, one iteration of its loop at a time
\* ------------------------------------------------------------------
\* the longest queue the loop is followed with
MaxQueue == 6

\* reference records a spec can hold: to the origin pool, to the
\* certificate, to a certificate of shared, to a malicious-user-mitigation
RefRecords ==
    {[path |-> POOL_PATH, name |-> "op", namespace |-> NS1],
     [path |-> CERT_PATH, name |-> "c1", namespace |-> NS1],
     [path |-> CERT_PATH, name |-> "c1s", namespace |-> SHARED],
     [path |-> OTHER_PATH, name |-> "mum", namespace |-> NS1]}

\* tenants: the specs of lb-a, of the origin pool op and of the
\* certificate c1 (cycles included); op and c1 may be missing
BfsGraphs ==
    {[specs |-> (A :> sa) @@ (P :> sp) @@ (K :> sk), present |-> {A} \cup present] :
        sa \in RefsOf(RefRecords), sp \in RefsOf(RefRecords),
        sk \in {<<>>} \cup SeqsUpTo(RefRecords, 1),
        present \in SUBSET {P, K}}

InitBfs ==
    /\ pc = "pure"
    /\ cfg = CHOOSE c \in Invocations : TRUE
    /\ fp_file = NoFingerprint
    /\ stored_fp = NoFingerprint
    /\ answer = NotPrompted
    /\ remote = {}
    /\ fails = 0
    /\ rb_fails = 0
    /\ contacted = FALSE
    /\ log = <<>>
    /\ pre = NoPre
    /\ results = <<>>
    /\ bi = 0
    /\ bt = NoBatch
    /\ totals = [moved |-> 0, failed |-> 0, reverted |-> 0, skipped |-> 0]
    /\ exit_code = -1
    /\ report = NoReport
    /\ \E g \in BfsGraphs : \E src \in {NS1, SHARED} :
          pure = [fn |-> "bfs", g |-> g, src_namespace |-> src, at |-> "call",
                  queue |-> <<>>, seen |-> {}, ordered |-> <<>>]

\* a loop that forgets what it has met
NeverSeen(key, seen) == key # key

\* "if key in seen"
AlreadySeen(key, seen) == key \in seen

BfsHead == pure.queue[1]
BfsType == guess_resource_type(BfsHead[1])
BfsKey == <<BfsType, BfsHead[2]>>
BfsObj == <<BfsHead[3], BfsType, BfsHead[2]>>
BfsEntry == <<BfsType, BfsHead[2], BfsHead[3]>>

\* queue = _find_ns_refs(spec, src_namespace)
BfsCall ==
    /\ pure.fn = "bfs"
    /\ pure.at = "call"
    /\ pure' = [pure EXCEPT !.at = "loop",
                            !.queue = find_ns_refs(pure.g.specs[A], pure.src_namespace)]
    /\ UNCHANGED mainvars

\* the reference has no known type, or its key was met before
BfsSkip ==
    /\ pure.fn = "bfs"
    /\ pure.at = "loop"
    /\ pure.queue # <<>>
    /\ BfsType = "None" \/ AlreadySeen(BfsKey, pure.seen)
    /\ pure' = [pure EXCEPT !.queue = Tail(@)]
    /\ UNCHANGED mainvars

\* the GET of the object fails: the entry is recorded as a leaf
BfsFetchFailed ==
    /\ pure.fn = "bfs"
    /\ pure.at = "loop"
    /\ pure.queue # <<>>
    /\ BfsType # "None"
    /\ ~AlreadySeen(BfsKey, pure.seen)
    /\ BfsObj \notin pure.g.present
    /\ pure' = [pure EXCEPT !.queue = Tail(@),
                            !.seen = @ \cup {BfsKey},
                            !.ordered = Append(@, BfsEntry)]
    /\ UNCHANGED mainvars

\* the object is fetched, its references join the queue
BfsExpand ==
    /\ pure.fn = "bfs"
    /\ pure.at = "loop"
    /\ pure.queue # <<>>
    /\ BfsType # "None"
    /\ ~AlreadySeen(BfsKey, pure.seen)
    /\ BfsObj \in pure.g.present
    /\ LET sub_refs == find_ns_refs(pure.g.specs[BfsObj], pure.src_namespace)
       IN /\ Len(pure.queue) - 1 + Len(sub_refs) <= MaxQueue
          /\ pure' = [pure EXCEPT !.queue = Tail(@) \o sub_refs,
                                  !.seen = @ \cup {BfsKey},
                                  !.ordered = Append(@, BfsEntry)]
    /\ UNCHANGED mainvars

\* return ordered
BfsReturn ==
    /\ pure.fn = "bfs"
    /\ pure.at = "loop"
    /\ pure.queue = <<>>
    /\ pure' = [pure EXCEPT !.at = "returned"]
    /\ UNCHANGED mainvars

NextBfs == BfsCall \/ BfsSkip \/ BfsFetchFailed \/ BfsExpand \/ BfsReturn

\* the loop runs as long as it can
SpecBfs == InitBfs /\ [][NextBfs]_vars /\ WF_vars(NextBfs)

PlanKeys == [i \in 1..Len(pure.ordered) |-> <<pure.ordered[i][1], pure.ordered[i][2]>>]

PlanIsClean ==
    /\ \A i \in 1..Len(PlanKeys) : \A j \in 1..Len(PlanKeys) : PlanKeys[i] = PlanKeys[j] => i = j
    /\ \A e \in Range(pure.ordered) : e[3] \notin SKIP_NAMESPACES

\* C26: discover_dependencies returns for every tenant, also when the
\* references form a cycle and when fetches fail, and the plan it
\* returns holds each (type, name) at most once and no entry of the
\* namespaces system and shared.
C26_DiscoveryTerminates ==
    /\ <>(pure.at = "returned")
    /\ [](pure.at = "returned" => PlanIsClean)

\* the search returned a plan after it followed a cycle between the
\* origin pool and the certificate and met a reference into shared
C26_CycleFollowed ==
    /\ pure.fn = "bfs"
    /\ pure.at = "returned"
    /\ pure.g.present = {A, P, K}
    /\ \E r \in Range(pure.g.specs[P]) : r.name = "c1"
    /\ \E r \in Range(pure.g.specs[K]) : r.name = "op"
    /\ \E r \in Range(pure.g.specs[A]) : r.namespace = SHARED
    /\ Len(pure.ordered) = 2

\* ------------------------------------------------------------------
\* What blocks a batch
\* ------------------------------------------------------------------
\* the batch ended blocked by a referrer check: before the plan, in the
\* backup phase, or in the probe phase after the LBs were deleted
BlockedByReferrers ==
    AtBatchEnd /\ bt.outcome \in {"pre-blocked", "blocked", "blocked-after-delete"}

\* the tenant as the batch found it
RemoteAtBatchStart ==
    IF bt.outcome = "blocked-after-delete" THEN bt.remote_before ELSE remote

BatchDepObjs == {DepObj(d) : d \in Range(BatchDepList(BatchNames))}

\* the referrers of a dependency that are outside the run: not in a
\* reserved namespace, not an LB of the move set, not a dependency of
\* the batch
OutsideReferrers(dep_obj) ==
    {r \in Referrers(cfg.w, RemoteAtBatchStart, dep_obj) :
        /\ r[1] \notin SKIP_NAMESPACES
        /\ ~(r[2] = LBK /\ <<r[1], r[3]>> \in pre.move_set)
        /\ r \notin BatchDepObjs}

\* C27: a batch ends blocked by the referrer checks only when one of
\* its dependencies has a referrer outside the run; referrers that are
\* LBs of the move set, dependencies of the same batch or objects of a
\* reserved namespace never block it.
C27_BlockedOnlyByOutsiders ==
    BlockedByReferrers => \E o \in BatchDepObjs : OutsideReferrers(o) # {}

\* ------------------------------------------------------------------
\* LBs that stay in source and reference a dependency of the batch
\* ------------------------------------------------------------------
\* the LBs of the source namespace that reference the dependency and are
\* not moved by this run: absent from the CSV, or dropped by conflict-skip
StayingLbs(dep_obj) ==
    {lb \in Referrers(cfg.w, RemoteAtBatchStart, dep_obj) :
        /\ lb[2] = LBK
        /\ \/ <<lb[1], lb[3]>> \notin Range(cfg.entries)
           \/ lb[3] \in pre.conflict_skipped_lbs}

BatchObjs == {SrcLbObj(n) : n \in Range(BatchNames)} \cup BatchDepObjs

\* the dependencies the batch takes out of source: not a certificate
\* that stays, not an object taken from the target instead
MovedDepObjs ==
    {DepObj(d) : d \in {x \in Range(BatchDepList(BatchNames)) : ~DepSkipped(DepKey(x))}}

\* a delete the batch issued outside rollback
BatchDeleteIssued ==
    \E i \in 1..Len(log) :
        /\ log[i][1] = "DELETE"
        /\ log[i][5] # "rollback"
        /\ <<log[i][2], log[i][3], log[i][4]>> \in BatchObjs

\* C28: when a dependency a batch is to move is referenced by an LB that stays
\* in the source namespace (absent from the CSV, or dropped by
\* conflict-skip after the scan), the batch issues no delete and does
\* not end as moved or as a clean dry run, whatever the
\* referring_objects field of the GET holds.
C28_StayingLbBlocks ==
    (AtBatchEnd /\ \E o \in MovedDepObjs : StayingLbs(o) # {}) =>
        /\ ~BatchDeleteIssued
        /\ bt.outcome \in {"pre-blocked", "blocked", "cert-blocked", "declined", "backup-failed"}

\* ------------------------------------------------------------------
\* Where rollback re-creates
\* ------------------------------------------------------------------
\* the request at position i of the log re-creates, during rollback, an
\* object at the place the batch deleted it from
RestoredInPlace(i) ==
    \E j \in (bt.from + 1)..(i - 1) :
        /\ log[j][1] = "DELETE"
        /\ log[j][5] # "rollback"
        /\ <<log[j][2], log[j][3], log[j][4]>> = <<log[i][2], log[i][3], log[i][4]>>

\* C29: every LB and every dependency rollback_batch re-creates is
\* created in the namespace the batch deleted that object from, also in
\* a batch whose LBs come from different source namespaces.
C29_RestoredInOwnNamespace ==
    (AtBatchEnd /\ bt.rolled_back) =>
        \A i \in (bt.from + 1)..Len(log) :
            (log[i][1] = "CREATE" /\ log[i][5] = "rollback") => RestoredInPlace(i)

\* ------------------------------------------------------------------
\* The status moved of a dependency
\* ------------------------------------------------------------------
\* the object the batch creates in the target for a dependency key
TargetDepObj(k) == <<cfg.target_namespace, k[1], NameInTarget(pre.dep_rename_map, k, k[2])>>

\* the batch created the object in the target and it is still there
CreatedAndKept(k) ==
    /\ TargetDepObj(k) \in remote
    /\ \E i \in (bt.from + 1)..Len(log) :
          /\ log[i][1] = "CREATE"
          /\ log[i][5] = "move"
          /\ <<log[i][2], log[i][3], log[i][4]>> = TargetDepObj(k)

\* C30: when the processing of a batch has ended, a dependency recorded
\* with status moved was created in the target namespace by this batch
\* and is still there; a dependency that was deleted from source and
\* neither restored nor created is not recorded as moved.
C30_MovedMeansInTarget ==
    AtBatchEnd =>
        \A k \in bt.in_dep_results :
            bt.batch_dep_results[k].status = "moved" => CreatedAndKept(k)

====
